---- MODULE Spec2Model ----
(***************************************************************************)
(* Model of the mask decoding, mask resizing and mask statistics of        *)
(* Plantalyze (backend/segmentation.py, backend/app.py, api/analyze.py).   *)
(*                                                                         *)
(* A tensor or mask is a record [shape, data]: shape is the numpy shape    *)
(* (a sequence of dimensions) and data the elements in row-major order.    *)
(* A raw tensor value v is held as the integer v * Denom, so that the      *)
(* scaling v * 255 and its truncation to 8 bits are computed exactly.      *)
(***************************************************************************)
EXTENDS Integers, Sequences, FiniteSets, TLC

\* ---- bounds of the model ----
MaxH == 2            \* largest tensor / mask height
MaxW == 3            \* largest tensor / mask width
MaxCells == 4        \* largest number of pixels (height * width) of a tensor
MaxChannels == 4     \* channel counts 0..MaxChannels are all drawn
WideChannels == 257  \* one channel count beyond the range of an 8-bit index
MaxVal == 1          \* channel values of a two-channel tensor are 0..MaxVal
Denom == 30          \* a raw single-channel value v is the integer v * Denom

\* Raw single-channel values (times Denom): -0.2, 0, 0.3, 1/3, 0.6, 2/3, 1, 1.2.
\* 1/3 and 2/3 scale exactly onto the two band limits 85 and 170.
RawVals == {-6, 0, 9, 10, 18, 20, 30, 36}

\* What `astype(np.uint8)` makes of a float outside 0..255 is not defined by C:
\* builds either wrap modulo 256 or saturate.
CastModes == {"wrap", "saturate"}

NoMask == [shape |-> <<>>, data |-> <<>>]

\* no statistics computed
NoStats == [total |-> 0]

\* cv2.imread returned None
NoImage == [readable |-> FALSE, h |-> 0, w |-> 0]

VARIABLES
    pc,          \* position of the operation under way
    prediction,  \* the inference tensor given to process_unet_output
    castMode,    \* how this build casts an out-of-range float to uint8
    mask,        \* the mask returned by process_unet_output (NoMask if none)
    err,         \* the exception raised, "" if none
    model,       \* the model given to predict_segmentation
    image,       \* what cv2.imread makes of the image path
    resized,     \* the mask after cv2.resize (NoMask if none)
    back,        \* a resized mask resized once more, to the first mask's size
    result,      \* what predict_segmentation returned: "pending", "mask" or "none"
    stats,       \* the pixel counts and percentages of the request's result
    \* one analyze request
    entry,       \* the endpoint serving it: "backend" (app.py) or "api" (analyze.py)
    rpc,         \* position of the request in analyze_leaf / analyze
    upload,      \* what the request's base64 image decodes to
    files,       \* the temporary files of the request that exist
    calls,       \* the preprocessing stages called so far, with their inputs
    cur,         \* the image the last preprocessing statement produced
    failed,      \* the steps of the request that have failed
    exc,         \* the message of the exception that is propagating, "" if none
    inTry,       \* the request is inside the try block that has the finally clause
    response,    \* the response of the request
    errors,      \* kind and error result of the failed requests served before it
    \* the model shared by the requests of one process
    unet_model,  \* the module-level reference: "None" or "model"
    tpc,         \* position of every request thread in get_model
    loads,       \* number of times keras has loaded the model
    rewritten,   \* the reference was written again after it had been set
    modelFile,   \* the model file on disk: "missing", "corrupt" or "valid"
    started,     \* the module of the endpoint has been imported
    served,      \* number of requests that have got their model
    \* the colour balance of one image
    xphoto,      \* cv2.xphoto in this environment: "absent", "present", "raises"
    photo,       \* the RGB image given to the colour balance
    balanced,    \* the image it returns
    wbUsed,      \* the algorithm that produced it
    divZero,     \* a division by zero was performed
    \* the functions called on their own
    toolpc,      \* the function that has run, "none" before
    exGiven,     \* the image extract_diseased_regions was called with
    exImage,     \* the caller's image array, as it is now
    exMask,      \* the mask it was called with
    exResult,    \* the image it returned
    image_paths, \* the list preprocess_batch was called with
    output_dir,  \* its output directory: "none", "writable" or "blocked"
    position,    \* the number of paths the loop of preprocess_batch has taken
    results,     \* the list preprocess_batch builds
    saved,       \* the names of the files written to the output directory
    leaf_file,   \* the file preprocess_leaf is called on
    leaf_dir,    \* its output directory: "none", "writable" or "blocked"
    leaf_shapes, \* the shapes of the images preprocess_leaf made, in order
    clahe_img,   \* the RGB image apply_clahe is called on
    lab,         \* its conversion to LAB
    lab_clahe,   \* the merge of the equalised L plane with a and b
    img_clahe    \* the RGB image apply_clahe returns

decodeVars ==
    <<pc, prediction, castMode, mask, err, model, image, resized, back, result, stats>>

requestVars ==
    <<entry, rpc, upload, files, calls, cur, failed, exc, inTry, response, errors>>

serverVars == <<unet_model, tpc, loads, rewritten, modelFile, started, served>>

balanceVars == <<xphoto, photo, balanced, wbUsed, divZero>>

extractVars == <<exGiven, exImage, exMask, exResult>>

batchVars == <<image_paths, output_dir, position, results, saved>>

leafVars == <<leaf_file, leaf_dir, leaf_shapes>>

claheVars == <<clahe_img, lab, lab_clahe, img_clahe>>

toolVars == <<toolpc, extractVars, batchVars, leafVars, claheVars>>

vars == <<decodeVars, requestVars, serverVars, balanceVars, toolVars>>

\* the request threads of one process
Threads == {1, 2}

\* no response sent
NoResponse ==
    [status |-> 0, kind |-> "none", message |-> "", mask |-> NoMask, stats |-> NoStats]

\* no temporary file exists
NoFiles == [raw |-> "absent", pre |-> "absent"]

\* the images held by the locals of preprocess_leaf, each the sequence of the
\* operations that made it; <<>> is an unassigned local
NoLocals ==
    [img |-> <<>>, img_wb |-> <<>>, img_clahe |-> <<>>, img_denoised |-> <<>>,
     img_sharp |-> <<>>, returned |-> <<>>]

\* no image
NoPhoto == [n |-> 0, data |-> <<>>]

\* no request is under way
RequestIdle ==
    /\ entry = "backend"
    /\ rpc = "idle"
    /\ upload = "none"
    /\ files = NoFiles
    /\ calls = <<>>
    /\ cur = NoLocals
    /\ failed = {}
    /\ exc = ""
    /\ inTry = FALSE
    /\ response = NoResponse
    /\ errors = {}

\* no thread is in get_model
ServerIdle ==
    /\ unet_model = "None"
    /\ tpc = [t \in Threads |-> "idle"]
    /\ loads = 0
    /\ rewritten = FALSE
    /\ modelFile = "missing"
    /\ started = FALSE
    /\ served = 0

\* no image is being balanced
BalanceIdle ==
    /\ xphoto = "absent"
    /\ photo = NoPhoto
    /\ balanced = NoPhoto
    /\ wbUsed = "none"
    /\ divZero = FALSE

\* no image array
NoPicture == [shape |-> <<>>, data |-> <<>>]

\* preprocess_batch is not called
BatchIdle ==
    /\ image_paths = <<>>
    /\ output_dir = "none"
    /\ position = 0
    /\ results = <<>>
    /\ saved = {}

\* no file
NoFile == [decodable |-> FALSE, h |-> 0, w |-> 0, channels |-> 0, turned |-> FALSE]

\* preprocess_leaf is not called on its own
LeafIdle ==
    /\ leaf_file = NoFile
    /\ leaf_dir = "none"
    /\ leaf_shapes = <<>>

\* apply_clahe is not called on its own
ClaheIdle ==
    /\ clahe_img = NoPicture
    /\ lab = NoPicture
    /\ lab_clahe = NoPicture
    /\ img_clahe = NoPicture

\* none of the functions called on their own has been called
ToolIdle ==
    /\ toolpc = "none"
    /\ exGiven = NoPicture
    /\ exImage = NoPicture
    /\ exMask = NoMask
    /\ exResult = NoPicture
    /\ BatchIdle
    /\ LeafIdle
    /\ ClaheIdle

\* ---- numpy helpers ----

RECURSIVE Prod(_)
\* ndarray.size: the product of the dimensions
Prod(s) == IF s = <<>> THEN 1 ELSE Head(s) * Prod(Tail(s))

Ndim(t) == Len(t.shape)

LastDim(t) == t.shape[Len(t.shape)]

\* ndarray.squeeze(): drop every dimension of size 1
Squeeze(s) == SelectSeq(s, LAMBDA d : d # 1)

RECURSIVE ArgmaxScanLast(_, _, _)
\* ArgmaxScan keeping the last maximum instead of the first
ArgmaxScanLast(data, lo, hi) ==
    IF lo = hi THEN lo
    ELSE LET mid == (lo + hi) \div 2
             l == ArgmaxScanLast(data, lo, mid)
             r == ArgmaxScanLast(data, mid + 1, hi)
         IN  IF data[r] >= data[l] THEN r ELSE l

RECURSIVE ArgmaxScan(_, _, _)
\* np.argmax over data[lo..hi]: the position of the first maximum. The range is
\* halved rather than walked; on equal values the left half's position is kept.
ArgmaxScan(data, lo, hi) ==
    IF lo = hi THEN lo
    ELSE LET mid == (lo + hi) \div 2
             l == ArgmaxScan(data, lo, mid)
             r == ArgmaxScan(data, mid + 1, hi)
         IN  IF data[r] > data[l] THEN r ELSE l

\* np.argmax(prediction, axis=-1) at pixel p (1-based), as a 0-based channel index
Argmax(t, p) ==
    LET base == (p - 1) * LastDim(t)
    IN  ArgmaxScan(t.data, base + 1, base + LastDim(t)) - (base + 1)

\* .astype(np.uint8) of an integer index
IndexToUint8(i) == i % 256

\* mapping.get(x, 255) with mapping = {0: 0, 1: 128, 2: 255}
MapClass(x) == CASE x = 0 -> 0 [] x = 1 -> 128 [] x = 2 -> 255 [] OTHER -> 255

\* BinaryValue scaling the class index by 128
BinaryValueHalf(x) == (x * 128) % 256

\* (mask_idx * 255).astype(np.uint8)
BinaryValue(x) == (x * 255) % 256

\* truncation toward zero of num / den (den > 0)
TruncDiv(num, den) == IF num >= 0 THEN num \div den ELSE -((-num) \div den)

\* (prediction * 255).astype(np.uint8) of the raw value n / Denom
ScaleToUint8(n, mode) ==
    LET t == TruncDiv(n * 255, Denom)
    IN  IF t >= 0 /\ t <= 255 THEN t
        ELSE IF mode = "wrap" THEN t % 256
        ELSE IF t < 0 THEN 0 ELSE 255

\* Band leaving the upper band unmapped
BandUpperRaw(u) == IF u < 85 THEN 0 ELSE IF u < 170 THEN 128 ELSE u

\* Band with the lower limit taken inclusively
BandInclusive(u) == IF u <= 85 THEN 0 ELSE IF u < 170 THEN 128 ELSE 255

\* the three bands of mask_3class
Band(u) == IF u < 85 THEN 0 ELSE IF u < 170 THEN 128 ELSE 255

\* ---- process_unet_output ----

IsMultiClass(t) == Ndim(t) = 3 /\ LastDim(t) >= 3

IsBinary(t) == Ndim(t) = 3 /\ LastDim(t) = 2

MultiClassMask(t) ==
    [shape |-> <<t.shape[1], t.shape[2]>>,
     data  |-> [p \in 1..(t.shape[1] * t.shape[2]) |->
                   MapClass(IndexToUint8(Argmax(t, p)))]]

BinaryMask(t) ==
    [shape |-> <<t.shape[1], t.shape[2]>>,
     data  |-> [p \in 1..(t.shape[1] * t.shape[2]) |->
                   BinaryValue(IndexToUint8(Argmax(t, p)))]]

SingleChannelMask(t, mode) ==
    [shape |-> IF Ndim(t) = 3 THEN Squeeze(t.shape) ELSE t.shape,
     data  |-> [k \in 1..Len(t.data) |-> Band(ScaleToUint8(t.data[k], mode))]]

\* the mask process_unet_output returns for a tensor with at least one element
DecodeMask(t, mode) ==
    IF IsMultiClass(t) THEN MultiClassMask(t)
    ELSE IF IsBinary(t) THEN BinaryMask(t)
    ELSE SingleChannelMask(t, mode)

\* prediction.min() / prediction.max() of a zero-size array raise ValueError
RaisesOnEmpty(t) == Prod(t.shape) = 0

\* ---- the tensors a model can hand to process_unet_output ----

\* (height, width) pairs within the bounds
Grids == {g \in (1..MaxH) \X (1..MaxW) : g[1] * g[2] <= MaxCells}

\* channel counts drawn for rank-3 tensors
ChannelCounts == (0..MaxChannels) \cup {WideChannels}

\* channels at which a multi-class pixel may have its maxima: the three classes
\* and the last channel; for a wide tensor the first and the last two channels
Probe(c) ==
    IF c <= MaxChannels THEN {k \in 1..c : k <= 3 \/ k = c} ELSE {1, c - 1, c}

\* the channel vectors one pixel of a c-channel tensor is drawn from: raw values
\* for one channel; with `full` every pair of values for two channels and one or
\* two tied maxima for more, without it a single maximum only
PixelVectors(c, raw, full) ==
    IF c = 0 THEN {<<>>}
    ELSE IF c = 1 THEN {<<v>> : v \in raw}
    ELSE IF c = 2
         THEN IF full THEN {<<a, b>> : a \in 0..MaxVal, b \in 0..MaxVal}
              ELSE {<<1, 0>>, <<0, 1>>}
    ELSE {[k \in 1..c |-> IF k = pq[1] \/ k = pq[2] THEN 1 ELSE 0] :
              pq \in {x \in Probe(c) \X Probe(c) : full \/ x[1] = x[2]}}

\* row-major layout of n pixels of c channels each
Flat(f, n, c) == [k \in 1..(n * c) |-> f[((k - 1) \div c) + 1][((k - 1) % c) + 1]]

\* the shapes tensors are drawn with: ranks 1, 2 and 3 and the rank 4 of a batch
\* of one single-channel image
TensorShapes(chans) ==
    {<<n>> : n \in 1..MaxW}
        \cup {<<g[1], g[2]>> : g \in Grids}
        \cup {<<g[1], g[2], c>> : g \in Grids, c \in chans}
        \cup {<<1, 1, n, 1>> : n \in 1..MaxW}

\* the channel count of a tensor of a shape: that of its pixels' vectors
ShapeChannels(shape) == IF Len(shape) = 3 THEN shape[3] ELSE 1

\* the number of pixels of a tensor of a shape
ShapePixels(shape) == IF Len(shape) = 3 THEN shape[1] * shape[2] ELSE Prod(shape)

\* the tensor of a shape whose pixel p has the channel vector f[p]
TensorOf(shape, f) ==
    [shape |-> shape, data |-> Flat(f, ShapePixels(shape), ShapeChannels(shape))]

\* the pixel vectors of the tensors of a shape
TensorPixels(shape, raw, full) ==
    [1..ShapePixels(shape) -> PixelVectors(ShapeChannels(shape), raw, full)]

TensorsOver(chans, raw, full) ==
    UNION {{TensorOf(shape, f) : f \in TensorPixels(shape, raw, full)} :
           shape \in TensorShapes(chans)}

\* ---- specification of process_unet_output ----

Init ==
    /\ pc = "start"
    /\ \E shape \in TensorShapes(ChannelCounts) :
           \E f \in TensorPixels(shape, RawVals, TRUE) : prediction = TensorOf(shape, f)
    /\ castMode \in CastModes
    /\ mask = NoMask
    /\ err = ""
    /\ model = "loaded"
    /\ image = NoImage
    /\ resized = NoMask
    /\ back = NoMask
    /\ result = "pending"
    /\ stats = NoStats
    /\ RequestIdle /\ ServerIdle /\ BalanceIdle /\ ToolIdle

\* process_unet_output(prediction): returns the mask, or raises
ProcessUnetOutput ==
    /\ pc = "start"
    /\ IF RaisesOnEmpty(prediction)
       THEN /\ pc' = "raised"
            /\ err' = "ValueError"
            /\ mask' = NoMask
       ELSE /\ pc' = "returned"
            /\ err' = ""
            /\ mask' = DecodeMask(prediction, castMode)
    /\ UNCHANGED <<prediction, castMode, model, image, resized, back, result, stats>>
    /\ UNCHANGED <<requestVars, serverVars, balanceVars, toolVars>>

Next == ProcessUnetOutput

Spec == Init /\ [][Next]_vars

\* ---- properties of process_unet_output ----

MaskValues == {0, 128, 255}

IsSingleChannel(t) == Ndim(t) = 2 \/ (Ndim(t) = 3 /\ LastDim(t) = 1)

InThreeCases(t) == IsMultiClass(t) \/ IsBinary(t) \/ IsSingleChannel(t)

\* value of channel i (0-based) at pixel p (1-based) of a rank-3 tensor
Chan(t, p, i) == t.data[(p - 1) * LastDim(t) + i + 1]

\* channel i holds the maximum at pixel p and no lower channel does
IsFirstMax(t, p, i) ==
    \A j \in 0..(LastDim(t) - 1) :
        /\ Chan(t, p, j) <= Chan(t, p, i)
        /\ (j < i => Chan(t, p, j) < Chan(t, p, i))

Pixels(t) == 1..(t.shape[1] * t.shape[2])

\* C1: for a tensor in one of the three shape cases, whatever its values, every
\* pixel of the mask process_unet_output returns is 0, 128 or 255.
C1_MaskValuesInSet ==
    (pc = "returned" /\ InThreeCases(prediction)) =>
        \A k \in DOMAIN mask.data : mask.data[k] \in MaskValues

\* C1 witness: a single-channel tensor holding a value above 1 has been decoded on a
\* build whose cast wraps, and that pixel came out as 0.
C1_Witness ==
    /\ pc = "returned"
    /\ IsSingleChannel(prediction)
    /\ castMode = "wrap"
    /\ \E k \in DOMAIN prediction.data :
           prediction.data[k] > Denom /\ mask.data[k] = 0

\* C2: in the multi-class case a pixel whose first maximum is at channel 0, 1 or 2
\* decodes to 0, 128 or 255 respectively (ties go to the lowest channel).
C2_MultiClassArgmax ==
    (pc = "returned" /\ IsMultiClass(prediction)) =>
        \A p \in Pixels(prediction) :
            /\ IsFirstMax(prediction, p, 0) => mask.data[p] = 0
            /\ IsFirstMax(prediction, p, 1) => mask.data[p] = 128
            /\ IsFirstMax(prediction, p, 2) => mask.data[p] = 255

\* C2 witness: a multi-class tensor with a pixel where channels 1 and 2 tie for the
\* maximum has been decoded, and that pixel came out as 128.
C2_Witness ==
    /\ pc = "returned"
    /\ IsMultiClass(prediction)
    /\ \E p \in Pixels(prediction) :
           /\ IsFirstMax(prediction, p, 1)
           /\ Chan(prediction, p, 2) = Chan(prediction, p, 1)
           /\ mask.data[p] = 128

\* C3: with four or more channels, a pixel whose first maximum lies at a channel
\* index >= 3 (at none of the channels 0, 1, 2) decodes to 255.
C3_ExtraClassesDiseased ==
    (pc = "returned" /\ IsMultiClass(prediction) /\ LastDim(prediction) >= 4) =>
        \A p \in Pixels(prediction) :
            (\A i \in 0..2 : ~IsFirstMax(prediction, p, i)) => mask.data[p] = 255

\* C4: in the two-channel case a pixel is 0 when channel 0 >= channel 1, 255 when
\* channel 1 is strictly larger, and never 128.
C4_BinaryArgmax ==
    (pc = "returned" /\ IsBinary(prediction)) =>
        \A p \in Pixels(prediction) :
            /\ Chan(prediction, p, 0) >= Chan(prediction, p, 1) => mask.data[p] = 0
            /\ Chan(prediction, p, 1) > Chan(prediction, p, 0) => mask.data[p] = 255
            /\ mask.data[p] # 128

\* C4 witness: a two-channel tensor with one tied pixel and one pixel where channel 1
\* is larger has been decoded to 0 and 255 at those pixels.
C4_Witness ==
    /\ pc = "returned"
    /\ IsBinary(prediction)
    /\ \E p, q \in Pixels(prediction) :
           /\ Chan(prediction, p, 0) = Chan(prediction, p, 1)
           /\ mask.data[p] = 0
           /\ Chan(prediction, q, 1) > Chan(prediction, q, 0)
           /\ mask.data[q] = 255

C6_UnsupportedShapeRaises ==
    (pc # "start" /\ ~InThreeCases(prediction)) => (pc = "raised" /\ mask = NoMask)

\* C24: for a tensor in one of the three shape cases, of height H and width W,
\* the returned mask is two-dimensional with H rows and W columns, the
\* single-channel tensors (1, W, 1), (H, 1, 1) and (1, 1, 1) included.
C24_MaskIsHeightByWidth ==
    (pc = "returned" /\ InThreeCases(prediction)) =>
        mask.shape = <<prediction.shape[1], prediction.shape[2]>>

\* C25: in the single-channel case the decoded value is monotonic in the raw
\* value, values outside [0, 1] included.
C25_DecodeMonotonic ==
    (pc = "returned" /\ IsSingleChannel(prediction)) =>
        \A j, k \in DOMAIN prediction.data :
            prediction.data[j] <= prediction.data[k] => mask.data[j] <= mask.data[k]

\* ---- the double-precision arithmetic of cv2.resize's source indices ----
\* OpenCV computes the INTER_NEAREST source index of destination index x as
\* floor(x * ifx) with ifx = 1. / fx and fx = (double) dsize / ssize, in IEEE-754
\* doubles. A double is held as [m, e], value m * 2^e, with m a 53-bit natural
\* kept as NumLimbs limbs of 15 bits, lowest limb first (TLC's integers have 32).

MantBits == 53       \* bits of the significand of a double
NumLimbs == 5        \* limbs of a natural: 75 bits
Limb == 2^15

Limbs == 1..NumLimbs

\* a natural below 2^30 as limbs
Big(n) == <<n % Limb, n \div Limb, 0, 0, 0>>

\* a natural below 2^30 from its limbs
BigToInt(a) == a[1] + a[2] * Limb

RECURSIVE BigCmp(_, _, _)
\* -1, 0, 1 as the lowest i limbs of a are below, equal to, above those of b
BigCmp(a, b, i) ==
    IF i = 0 THEN 0
    ELSE IF a[i] > b[i] THEN 1
    ELSE IF a[i] < b[i] THEN -1
    ELSE BigCmp(a, b, i - 1)

BigGeq(a, b) == BigCmp(a, b, NumLimbs) >= 0

\* a - b for a >= b: limb i borrows when the limbs below it are smaller in a
BigSub(a, b) ==
    LET limb(i) == (a[i] - b[i] - (IF BigCmp(a, b, i - 1) < 0 THEN 1 ELSE 0)) % Limb
    IN  <<limb(1), limb(2), limb(3), limb(4), limb(5)>>

RECURSIVE MulCarry(_, _, _, _)
\* the carry out of limb i of a * k + c
MulCarry(a, k, c, i) ==
    IF i = 0 THEN c ELSE (a[i] * k + MulCarry(a, k, c, i - 1)) \div Limb

\* a * k + c for k, c below 2^15
BigMulAdd(a, k, c) ==
    LET limb(i) == (a[i] * k + MulCarry(a, k, c, i - 1)) % Limb
    IN  <<limb(1), limb(2), limb(3), limb(4), limb(5)>>

\* bit i (from 0) of a
BigBit(a, i) == (a[(i \div 15) + 1] \div (2^(i % 15))) % 2

\* the number of bits of a: the position of its highest 1 bit, plus one
BigBitLen(a) ==
    IF \A i \in Limbs : a[i] = 0 THEN 0
    ELSE LET top == CHOOSE i \in Limbs : a[i] # 0 /\ \A j \in Limbs : j > i => a[j] = 0
             len == CHOOSE n \in 1..15 : 2^(n - 1) <= a[top] /\ a[top] < 2^n
         IN  (top - 1) * 15 + len

\* floor(a / 2^n)
BigShiftRight(a, n) ==
    LET q == n \div 15
        r == n % 15
        limb(i) == IF i \in Limbs THEN a[i] ELSE 0
        out(i)  == ((limb(i + q) \div (2^r)) + (limb(i + q + 1) % (2^r)) * (2^(15 - r)))
                       % Limb
    IN  <<out(1), out(2), out(3), out(4), out(5)>>

\* a * 2^n, for a result within the limbs
BigShiftLeft(a, n) ==
    LET q == n \div 15
        r == n % 15
        limb(i) == IF i \in Limbs THEN a[i] ELSE 0
        out(i)  == ((limb(i - q) % (2^(15 - r))) * (2^r)
                       + (limb(i - q - 1) \div (2^(15 - r)))) % Limb
    IN  <<out(1), out(2), out(3), out(4), out(5)>>

\* the lowest n bits of a are not all 0
BigLowBits(a, n) == \E i \in 0..(n - 1) : BigBit(a, i) = 1

\* the double nearest to p * 2^e (ties to even), `sticky` telling that the exact
\* value lies above p * 2^e by less than one unit of p
RoundToDouble(p, e, sticky) ==
    LET len == BigBitLen(p)
    IN  IF len <= MantBits
        THEN [m |-> BigShiftLeft(p, MantBits - len), e |-> e - (MantBits - len)]
        ELSE LET t    == len - MantBits
                 q    == BigShiftRight(p, t)
                 half == BigBit(p, t - 1) = 1
                 rest == sticky \/ BigLowBits(p, t - 1)
                 up   == half /\ (rest \/ BigBit(q, 0) = 1)
                 m    == IF up THEN BigMulAdd(q, 1, 1) ELSE q
             IN  IF BigBitLen(m) > MantBits
                 THEN [m |-> BigShiftRight(m, 1), e |-> e + t + 1]
                 ELSE [m |-> m, e |-> e + t]

\* (double) n for an integer 0 < n < 2^30
IntToDouble(n) == RoundToDouble(Big(n), 0, FALSE)

\* one more hexadecimal digit of a quotient: from the quotient and remainder qr
\* of a dividend to those of 16 times the dividend
DivStep(qr, d) ==
    LET r16 == BigMulAdd(qr.r, 16, 0)
        g   == CHOOSE k \in 0..15 :
                   /\ BigGeq(r16, BigMulAdd(d, k, 0))
                   /\ ~BigGeq(r16, BigMulAdd(d, k + 1, 0))
    IN  [q |-> BigMulAdd(qr.q, 16, g), r |-> BigSub(r16, BigMulAdd(d, g, 0))]

RECURSIVE DivSteps(_, _, _)
\* the quotient q of x * 16^n by d, with its remainder r, for x < 2 * d
DivSteps(x, d, n) ==
    IF n = 0
    THEN IF BigGeq(x, d) THEN [q |-> Big(1), r |-> BigSub(x, d)]
         ELSE [q |-> Big(0), r |-> x]
    ELSE CHOOSE next \in {DivStep(qr, d) : qr \in {DivSteps(x, d, n - 1)}} : TRUE

\* x / y in doubles: the quotient of the significands to 56 fraction bits, rounded
DoubleDiv(x, y) ==
    CHOOSE z \in {RoundToDouble(qr.q, x.e - y.e - 56, \E i \in Limbs : qr.r[i] # 0) :
                     qr \in {DivSteps(x.m, y.m, 14)}} : TRUE

\* (double) n * x in doubles, for an integer 0 < n < 2^15
DoubleMulInt(n, x) == RoundToDouble(BigMulAdd(x.m, n, 0), x.e, FALSE)

\* cvFloor(x) for a double 0 < x < 2^30
DoubleFloor(x) ==
    IF x.e >= 0 THEN BigToInt(BigShiftLeft(x.m, x.e))
    ELSE IF -x.e >= MantBits THEN 0
    ELSE BigToInt(BigShiftRight(x.m, -x.e))

\* ifx = 1. / fx with fx = (double) dstN / srcN
InverseScale(srcN, dstN) ==
    CHOOSE ifx \in {DoubleDiv(IntToDouble(1), fx) :
                       fx \in {DoubleDiv(IntToDouble(dstN), IntToDouble(srcN))}} : TRUE

\* cvFloor(x * ifx)
ScaledFloor(x, ifx) == IF x = 0 THEN 0 ELSE DoubleFloor(DoubleMulInt(x, ifx))

\* ---- cv2.resize(mask, (width, height), interpolation=cv2.INTER_NEAREST) ----

MaxTarget == 6       \* largest width and height of the small resizes
WideFactor == 49     \* the wide resize multiplies the mask's width by WideFactor

Min(a, b) == IF a < b THEN a ELSE b

\* how OpenCV reads a numpy array of at most two dimensions as a matrix: a 1-D array
\* is a column, a 0-d array a 1 x 1 matrix
MatRows(m) == IF Len(m.shape) = 0 THEN 1 ELSE m.shape[1]

MatCols(m) == IF Len(m.shape) = 2 THEN m.shape[2] ELSE 1

\* the source index INTER_NEAREST samples for destination index d (0-based):
\* min(cvFloor(d * ifx), srcN - 1)
SrcIndex(d, ifx, srcN) == Min(ScaledFloor(d, ifx), srcN - 1)

\* the source indices of the destination indices 0..dstN-1 (OpenCV's x_ofs), the
\* index of destination d at position d + 1
SrcIndices(srcN, dstN) ==
    CHOOSE ofs \in {[d \in 1..dstN |-> SrcIndex(d - 1, ifx, srcN)] :
                       ifx \in {InverseScale(srcN, dstN)}} :
        ofs \in [1..dstN -> 0..(srcN - 1)]

\* the pairs of source and destination size the resizes of the model meet
TabledSizes ==
    ((1..MaxTarget) \X (1..MaxTarget))
        \cup {<<w, w * WideFactor>> : w \in 1..MaxW}
        \cup {<<w * WideFactor, w>> : w \in 1..MaxW}

\* SrcIndices of these pairs, computed once
IndexTable ==
    CHOOSE t \in {[p \in TabledSizes |-> SrcIndices(p[1], p[2])]} :
        t \in [TabledSizes -> Seq(Nat)]

Offsets(srcN, dstN) ==
    IF <<srcN, dstN>> \in TabledSizes THEN IndexTable[<<srcN, dstN>>]
    ELSE SrcIndices(srcN, dstN)

\* ResizeNearest averaging the sampled pixel with its right-hand neighbour
ResizeBlend(m, width, height) ==
    LET rows == MatRows(m)
        cols == MatCols(m)
    IN  [shape |-> <<height, width>>,
         data  |-> [k \in 1..(height * width) |->
                      LET sy == Offsets(rows, height)[((k - 1) \div width) + 1]
                          sx == Offsets(cols, width)[((k - 1) % width) + 1]
                          nx == Min(sx + 1, cols - 1)
                      IN  (m.data[sy * cols + sx + 1] + m.data[sy * cols + nx + 1])
                              \div 2]]

\* the resized array, of shape (height, width)
ResizeNearest(m, width, height) ==
    LET rows == MatRows(m)
        cols == MatCols(m)
    IN  [shape |-> <<height, width>>,
         data  |-> [k \in 1..(height * width) |->
                      LET sy == Offsets(rows, height)[((k - 1) \div width) + 1]
                          sx == Offsets(cols, width)[((k - 1) % width) + 1]
                      IN  m.data[sy * cols + sx + 1]]]

\* cv2.resize raises on an array of more than two dimensions that is no image
\* (process_unet_output returns no mask of exactly three dimensions)
ResizeRaises(m) == Len(m.shape) > 2

\* the canonical masks: two-dimensional, every pixel 0, 128 or 255
Masks ==
    UNION {{[shape |-> <<g[1], g[2]>>, data |-> d] :
               d \in [1..(g[1] * g[2]) -> {0, 128, 255}]} : g \in Grids}

InitResize ==
    /\ pc = "decoded"
    /\ mask \in Masks
    /\ prediction = NoMask
    /\ castMode = "wrap"
    /\ err = ""
    /\ model = "loaded"
    /\ image = NoImage
    /\ resized = NoMask
    /\ back = NoMask
    /\ result = "pending"
    /\ stats = NoStats
    /\ RequestIdle /\ ServerIdle /\ BalanceIdle /\ ToolIdle

\* mask_resized = cv2.resize(mask, original_size, interpolation=cv2.INTER_NEAREST)
ResizeMask ==
    /\ pc = "decoded"
    /\ \E width \in (1..MaxTarget) \cup {MatCols(mask) * WideFactor},
          height \in 1..MaxTarget :
           resized' = ResizeNearest(mask, width, height)
    /\ pc' = "resized"
    /\ UNCHANGED <<prediction, castMode, mask, err, model, image, back, result, stats>>
    /\ UNCHANGED <<requestVars, serverVars, balanceVars, toolVars>>

\* the resized mask resized again, to the size of the first mask
ResizeBack ==
    /\ pc = "resized"
    /\ back' = ResizeNearest(resized, MatCols(mask), MatRows(mask))
    /\ pc' = "back"
    /\ UNCHANGED <<prediction, castMode, mask, err, model, image, resized, result, stats>>
    /\ UNCHANGED <<requestVars, serverVars, balanceVars, toolVars>>

NextResize == ResizeMask \/ ResizeBack

SpecResize == InitResize /\ [][NextResize]_vars

\* ---- properties of the resize ----

C8_RoundTrip ==
    (/\ pc = "back"
     /\ resized.shape[1] % mask.shape[1] = 0
     /\ resized.shape[2] % mask.shape[2] = 0) => back = mask

\* ---- predict_segmentation(image_path, model) ----

MaxImgH == 2         \* largest height of the image at image_path
MaxImgW == 3         \* largest width of the image at image_path

\* None, a model whose predict returns a tensor, a model whose predict raises
Models == {"none", "loaded", "failing"}

\* what cv2.imread returns: None, or an image of at least one row and one column
Images ==
    {NoImage} \cup {[readable |-> TRUE, h |-> h, w |-> w] :
                       h \in 1..MaxImgH, w \in 1..MaxImgW}

\* raw single-channel values (times Denom) of the model outputs: 0, about 0.5, 1
PredictRawVals == {0, Denom \div 2, Denom}

\* original_size taken as (height, width)
OriginalSizeSwapped(img) == <<img.h, img.w>>

\* original_size = (image.shape[1], image.shape[0]): (width, height)
OriginalSize(img) == <<img.w, img.h>>

InitPredict ==
    /\ pc = "start"
    /\ model \in Models
    /\ image \in Images
    /\ prediction \in TensorsOver(0..3, PredictRawVals, FALSE)
    /\ castMode \in CastModes
    /\ mask = NoMask
    /\ err = ""
    /\ resized = NoMask
    /\ back = NoMask
    /\ result = "pending"
    /\ stats = NoStats
    /\ RequestIdle /\ ServerIdle /\ BalanceIdle /\ ToolIdle

\* predict_segmentation returns None
ReturnsNone(e) ==
    /\ result' = "none"
    /\ err' = e
    /\ mask' = NoMask
    /\ resized' = NoMask

\* predict_segmentation: the whole call, `prediction` being what model.predict
\* yields for the image
PredictSegmentation ==
    /\ pc = "start"
    /\ pc' = "returned"
    /\ IF model = "none" THEN ReturnsNone("model is None")
       ELSE IF ~image.readable THEN ReturnsNone("could not read image")
       ELSE IF model = "failing" THEN ReturnsNone("predict raised")
       ELSE IF RaisesOnEmpty(prediction) THEN ReturnsNone("ValueError")
       ELSE IF ResizeRaises(DecodeMask(prediction, castMode))
            THEN ReturnsNone("cv2.error")
       ELSE /\ result' = "mask"
            /\ err' = ""
            /\ mask' = DecodeMask(prediction, castMode)
            /\ resized' = ResizeNearest(DecodeMask(prediction, castMode),
                                        OriginalSize(image)[1], OriginalSize(image)[2])
    /\ UNCHANGED <<prediction, castMode, model, image, back, stats>>
    /\ UNCHANGED <<requestVars, serverVars, balanceVars, toolVars>>

NextPredict == PredictSegmentation

SpecPredict == InitPredict /\ [][NextPredict]_vars

\* C9: a mask returned by predict_segmentation for an image of height H and width W
\* has exactly H rows and W columns, whatever the resolution of the model's output.
C9_MaskHasImageSize ==
    (pc = "returned" /\ result = "mask") =>
        /\ resized.shape = <<image.h, image.w>>
        /\ Len(resized.data) = image.h * image.w

\* C9 witness: a (2,2,3) model output has been decoded and returned as a mask of
\* 1 row and 3 columns for a 1 x 3 image.
C9_Witness ==
    /\ pc = "returned"
    /\ result = "mask"
    /\ prediction.shape = <<2, 2, 3>>
    /\ image.h = 1 /\ image.w = 3
    /\ resized.shape = <<1, 3>>

\* ---- the mask statistics of analyze_leaf / analyze ----

StatSide == 10       \* side of the large masks the statistics are computed on
StripeStep == 10     \* step of the class counts of the large masks

\* a mask of `side` rows and columns: n0 pixels of 0, then n128 of 128, then 255
Striped(side, n0, n128) ==
    [shape |-> <<side, side>>,
     data  |-> [k \in 1..(side * side) |->
                   IF k <= n0 THEN 0 ELSE IF k <= n0 + n128 THEN 128 ELSE 255]]

\* the masks predict_segmentation hands to the statistics: every small mask, and
\* large ones by their class counts
StatMasks ==
    Masks \cup
    {Striped(StatSide, c[1] * StripeStep, c[2] * StripeStep) :
        c \in {x \in (0..StatSide * StatSide) \X (0..StatSide * StatSide) :
                  (x[1] + x[2]) * StripeStep <= StatSide * StatSide}}

RECURSIVE SumEqual(_, _, _, _)
\* np.sum(mask == v) over data[lo..hi]
SumEqual(data, v, lo, hi) ==
    IF lo > hi THEN 0
    ELSE IF lo = hi THEN (IF data[lo] = v THEN 1 ELSE 0)
    ELSE LET mid == (lo + hi) \div 2
         IN  SumEqual(data, v, lo, mid) + SumEqual(data, v, mid + 1, hi)

\* np.sum(mask == v)
CountEqual(m, v) == SumEqual(m.data, v, 1, Len(m.data))

\* count // total * 100 ... the percentage taken with integer division
PercentFloor(count, total) == [num |-> ((count * 100) \div total), den |-> 1]

\* float(count / total * 100), held as the exact fraction num / den
Percent(count, total) == [num |-> count * 100, den |-> total]

\* the counts and the maskStats of the response
MaskStats(m) ==
    [background        |-> CountEqual(m, 0),
     healthy           |-> CountEqual(m, 128),
     diseased          |-> CountEqual(m, 255),
     total             |-> Prod(m.shape),
     backgroundPercent |-> Percent(CountEqual(m, 0), Prod(m.shape)),
     healthyPercent    |-> Percent(CountEqual(m, 128), Prod(m.shape)),
     diseasedPercent   |-> Percent(CountEqual(m, 255), Prod(m.shape))]

InitStats ==
    /\ pc = "segmented"
    /\ resized \in StatMasks
    /\ result = "mask"
    /\ prediction = NoMask
    /\ castMode = "wrap"
    /\ mask = NoMask
    /\ err = ""
    /\ model = "loaded"
    /\ image = NoImage
    /\ back = NoMask
    /\ stats = NoStats
    /\ RequestIdle /\ ServerIdle /\ BalanceIdle /\ ToolIdle

\* analyze_leaf / analyze, from the pixel counts to the maskStats of the result
ComputeMaskStats ==
    /\ pc = "segmented"
    /\ result = "mask"
    /\ stats' = MaskStats(resized)
    /\ pc' = "responded"
    /\ UNCHANGED <<prediction, castMode, mask, err, model, image, resized, back, result>>
    /\ UNCHANGED <<requestVars, serverVars, balanceVars, toolVars>>

NextStats == ComputeMaskStats

SpecStats == InitStats /\ [][NextStats]_vars

\* the number of pixels of mask m with value v
PixelsWith(m, v) == Cardinality({k \in DOMAIN m.data : m.data[k] = v})

\* the fraction q equals n percent
IsPercent(q, n) == q.num = n * q.den

\* C10: for a mask with every pixel in {0,128,255} the three figures are
\* count(0)/total*100, count(128)/total*100 and count(255)/total*100 with
\* total = width * height; the three counts sum to total and the three percentages
\* to 100.
C10_MaskStatistics ==
    (pc = "responded" /\ \A k \in DOMAIN resized.data : resized.data[k] \in MaskValues) =>
        LET total == resized.shape[1] * resized.shape[2]
        IN  /\ stats.total = total
            /\ stats.background + stats.healthy + stats.diseased = total
            /\ stats.backgroundPercent.num * total
                   = PixelsWith(resized, 0) * 100 * stats.backgroundPercent.den
            /\ stats.healthyPercent.num * total
                   = PixelsWith(resized, 128) * 100 * stats.healthyPercent.den
            /\ stats.diseasedPercent.num * total
                   = PixelsWith(resized, 255) * 100 * stats.diseasedPercent.den
            /\ stats.backgroundPercent.den = stats.healthyPercent.den
            /\ stats.healthyPercent.den = stats.diseasedPercent.den
            /\ stats.backgroundPercent.num + stats.healthyPercent.num
                   + stats.diseasedPercent.num = 100 * stats.backgroundPercent.den

\* C10 witness: the statistics of a 100-pixel mask with 30 / 50 / 20 pixels of
\* 0 / 128 / 255 have been computed as 30, 50 and 20 percent.
C10_Witness ==
    /\ pc = "responded"
    /\ Len(resized.data) = 100
    /\ PixelsWith(resized, 0) = 30
    /\ PixelsWith(resized, 128) = 50
    /\ PixelsWith(resized, 255) = 20
    /\ IsPercent(stats.backgroundPercent, 30)
    /\ IsPercent(stats.healthyPercent, 50)
    /\ IsPercent(stats.diseasedPercent, 20)

\* ---- the statistics of a mask with other values than 0, 128, 255 ----

\* 8-bit masks of the small shapes with pixels also of 64 and 200, values that are
\* none of the three classes
ByteMasks ==
    UNION {{[shape |-> <<g[1], g[2]>>, data |-> d] :
               d \in [1..(g[1] * g[2]) -> {0, 64, 128, 200, 255}]} : g \in Grids}

InitStatsAny ==
    /\ pc = "segmented"
    /\ resized \in ByteMasks
    /\ result = "mask"
    /\ prediction = NoMask
    /\ castMode = "wrap"
    /\ mask = NoMask
    /\ err = ""
    /\ model = "loaded"
    /\ image = NoImage
    /\ back = NoMask
    /\ stats = NoStats
    /\ RequestIdle /\ ServerIdle /\ BalanceIdle /\ ToolIdle

SpecStatsAny == InitStatsAny /\ [][NextStats]_vars

RequestShapes == {<<1, 1, 3>>, <<1, 2, 0>>, <<2>>, <<1, 2>>, <<1, 1, 2, 1>>}

\* the model outputs of the requests
RequestTensors ==
    UNION {{TensorOf(shape, f) : f \in TensorPixels(shape, {0, Denom}, FALSE)} :
           shape \in RequestShapes}

\* what the base64 image of a request is: no image key, undecodable bytes, an
\* image of zero area, an image
Uploads == {"missing", "unreadable", "empty", "image"}

\* the step of predict_segmentation that makes it return None, "" if it returns
\* a mask
PredictError(mdl, img, pred, mode) ==
    IF mdl = "none" THEN "model is None"
    ELSE IF ~img.readable THEN "could not read image"
    ELSE IF mdl = "failing" THEN "predict raised"
    ELSE IF RaisesOnEmpty(pred) THEN "ValueError"
    ELSE IF ResizeRaises(DecodeMask(pred, mode)) THEN "cv2.error"
    ELSE ""

\* raise an exception: inside the try block control goes to the finally clause,
\* outside of it to the handler of analyze_leaf
Raise(step, message) ==
    /\ failed' = failed \cup {step}
    /\ exc' = message
    /\ rpc' = IF inTry THEN "finally" ELSE "except"

\* return jsonify(...) before the try block
Respond(status, kind, message) ==
    /\ response' = [status |-> status, kind |-> kind, message |-> message,
                    mask |-> NoMask, stats |-> NoStats]
    /\ rpc' = "done"

InitRequest ==
    /\ entry \in {"backend", "api"}
    /\ rpc = "start"
    /\ upload \in Uploads
    /\ files = NoFiles
    /\ calls = <<>>
    /\ cur = NoLocals
    /\ failed = {}
    /\ exc = ""
    /\ inTry = FALSE
    /\ response = NoResponse
    /\ errors = {}
    /\ xphoto \in {"absent", "present", "raises"}
    /\ model \in Models
    /\ pc = "start"
    /\ prediction = NoMask
    /\ castMode = "wrap"
    /\ mask = NoMask
    /\ err = ""
    /\ image = NoImage
    /\ resized = NoMask
    /\ back = NoMask
    /\ result = "pending"
    /\ stats = NoStats
    /\ ServerIdle /\ ToolIdle
    /\ photo = NoPhoto
    /\ balanced = NoPhoto
    /\ wbUsed = "none"
    /\ divZero = FALSE

\* data = request.get_json(); if not data or 'image' not in data: return ... 400
GetRequest ==
    /\ rpc = "start"
    /\ IF upload = "missing"
       THEN Respond(400, "error", "No image provided")
       ELSE rpc' = "decode" /\ UNCHANGED response
    /\ UNCHANGED <<entry, upload, files, calls, cur, failed, exc, inTry, errors>>
    /\ UNCHANGED <<decodeVars, serverVars, balanceVars, toolVars>>

\* image_array = decode_base64_image(base64_image)
DecodeImage ==
    /\ rpc = "decode"
    /\ IF upload = "unreadable"
       THEN Raise("decode", "Failed to decode image")
       ELSE rpc' = "validate" /\ UNCHANGED <<failed, exc>>
    /\ UNCHANGED <<entry, upload, files, calls, cur, inTry, response, errors>>
    /\ UNCHANGED <<decodeVars, serverVars, balanceVars, toolVars>>

\* is_leaf = is_valid_leaf_image(image_array); if not is_leaf: return ...
\* (cv2.cvtColor raises on an image of zero area)
ValidateLeaf ==
    /\ rpc = "validate"
    /\ IF upload = "empty"
       THEN Raise("validate", "cvtColor") /\ UNCHANGED response
       ELSE \E isLeaf \in BOOLEAN :
                IF isLeaf
                THEN /\ rpc' = IF entry = "api" THEN "get_model" ELSE "save_raw"
                     /\ UNCHANGED <<failed, exc, response>>
                ELSE Respond(200, "not_leaf", "No plant leaf detected")
                         /\ UNCHANGED <<failed, exc>>
    /\ UNCHANGED <<entry, upload, files, calls, cur, inTry, errors>>
    /\ UNCHANGED <<decodeVars, serverVars, balanceVars, toolVars>>

\* analyze only: model = get_model(); if model is None: return ... 500
GetModel ==
    /\ rpc = "get_model"
    /\ IF model = "none"
       THEN /\ Respond(500, "error", "Model not loaded")
            /\ failed' = failed \cup {"get_model"}
       ELSE rpc' = "save_raw" /\ UNCHANGED <<response, failed>>
    /\ UNCHANGED <<entry, upload, files, calls, cur, exc, inTry, errors>>
    /\ UNCHANGED <<decodeVars, serverVars, balanceVars, toolVars>>

\* with tempfile.NamedTemporaryFile(suffix='.jpg', delete=False) as tmp_file:
\*     cv2.imwrite(temp_path, ...)      (imwrite may write nothing and return False)
\* try:
SaveRaw ==
    /\ rpc = "save_raw"
    /\ \E written \in {"image", "unwritten", "raises"} :
           IF written = "raises"
           THEN /\ files' = [files EXCEPT !.raw = "unwritten"]
                /\ Raise("save_raw", "imwrite")
                /\ UNCHANGED inTry
           ELSE /\ files' = [files EXCEPT !.raw = written]
                /\ rpc' = "pre_read"
                /\ inTry' = TRUE
                /\ UNCHANGED <<failed, exc>>
    /\ UNCHANGED <<entry, upload, calls, cur, response, errors>>
    /\ UNCHANGED <<decodeVars, serverVars, balanceVars, toolVars>>

\* ---- preprocess_leaf(image_path), called by the request ----

\* the stage that ran on `input` and returned `output`
StageCall(stage, input, output) == [stage |-> stage, input |-> input, output |-> output]

\* a stage raises cv2.error, out of preprocess_leaf and into the request's try
\* block; the text of the error names the OpenCV function that failed
StageRaises(stage) == Raise(stage, stage) /\ UNCHANGED <<calls, cur>>

\* img = cv2.imread(str(image_path)); if img is None: return None
\* img = cv2.cvtColor(img, cv2.COLOR_BGR2RGB)
PreRead ==
    /\ rpc = "pre_read"
    /\ IF files.raw = "image"
       THEN /\ cur' = [cur EXCEPT !.img = <<"imread", "cvtColor">>]
            /\ rpc' = "pre_wb"
            /\ UNCHANGED failed
       ELSE /\ failed' = failed \cup {"imread"}
            /\ rpc' = "check_pre"
            /\ UNCHANGED cur
    /\ UNCHANGED <<entry, upload, files, calls, exc, inTry, response, errors>>
    /\ UNCHANGED <<decodeVars, serverVars, balanceVars, toolVars>>

\* the algorithm apply_white_balance ends up with
WhiteBalanceUsed(env) == IF env = "present" THEN "simple_wb" ELSE "gray_world"

\* img_wb = apply_white_balance(img): xphoto's SimpleWB if there is one, and the
\* gray-world fallback if there is none or if it raises cv2.error
PreWhiteBalance ==
    /\ rpc = "pre_wb"
    /\ cur' = [cur EXCEPT !.img_wb = Append(cur.img, WhiteBalanceUsed(xphoto))]
    /\ calls' = Append(calls, StageCall("white_balance", cur.img,
                                        Append(cur.img, WhiteBalanceUsed(xphoto))))
    /\ failed' = IF xphoto = "raises" THEN failed \cup {"simple_wb"} ELSE failed
    /\ rpc' = "pre_clahe"
    /\ UNCHANGED <<entry, upload, files, exc, inTry, response, errors>>
    /\ UNCHANGED <<decodeVars, serverVars, balanceVars, toolVars>>

\* img_clahe = apply_clahe(img_wb)
PreClahe ==
    /\ rpc = "pre_clahe"
    /\ \E ok \in BOOLEAN :
           IF ok
           THEN /\ cur' = [cur EXCEPT !.img_clahe = Append(cur.img_wb, "clahe")]
                /\ calls' = Append(calls, StageCall("clahe", cur.img_wb,
                                                    Append(cur.img_wb, "clahe")))
                /\ rpc' = "pre_denoise"
                /\ UNCHANGED <<failed, exc>>
           ELSE StageRaises("clahe")
    /\ UNCHANGED <<entry, upload, files, inTry, response, errors>>
    /\ UNCHANGED <<decodeVars, serverVars, balanceVars, toolVars>>

\* img_denoised = cv2.fastNlMeansDenoisingColored(img_clahe, ...)
PreDenoise ==
    /\ rpc = "pre_denoise"
    /\ \E ok \in BOOLEAN :
           IF ok
           THEN /\ cur' = [cur EXCEPT !.img_denoised = Append(cur.img_clahe, "denoise")]
                /\ calls' = Append(calls, StageCall("denoise", cur.img_clahe,
                                                    Append(cur.img_clahe, "denoise")))
                /\ rpc' = "pre_sharpen"
                /\ UNCHANGED <<failed, exc>>
           ELSE StageRaises("denoise")
    /\ UNCHANGED <<entry, upload, files, inTry, response, errors>>
    /\ UNCHANGED <<decodeVars, serverVars, balanceVars, toolVars>>

\* SharpenInput taking the image before the denoising
SharpenInputUndenoised(locals) == locals.img_clahe

\* the argument of apply_sharpening
SharpenInput(locals) == locals.img_denoised

\* img_sharp = apply_sharpening(img_denoised)
PreSharpen ==
    /\ rpc = "pre_sharpen"
    /\ \E ok \in BOOLEAN :
           IF ok
           THEN /\ cur' = [cur EXCEPT !.img_sharp = Append(SharpenInput(cur), "sharpen")]
                /\ calls' = Append(calls, StageCall("sharpen", SharpenInput(cur),
                                                    Append(SharpenInput(cur), "sharpen")))
                /\ rpc' = "pre_return"
                /\ UNCHANGED <<failed, exc>>
           ELSE StageRaises("sharpen")
    /\ UNCHANGED <<entry, upload, files, inTry, response, errors>>
    /\ UNCHANGED <<decodeVars, serverVars, balanceVars, toolVars>>

\* (output_dir is None) return img_sharp
PreReturn ==
    /\ rpc = "pre_return"
    /\ cur' = [cur EXCEPT !.returned = cur.img_sharp]
    /\ rpc' = "check_pre"
    /\ UNCHANGED <<entry, upload, files, calls, failed, exc, inTry, response, errors>>
    /\ UNCHANGED <<decodeVars, serverVars, balanceVars, toolVars>>

\* CheckPreprocessed carrying on without the check for None
CheckPreprocessedUnchecked ==
    /\ rpc = "check_pre"
    /\ rpc' = "save_pre"
    /\ UNCHANGED <<entry, upload, files, calls, cur, failed, exc, inTry, response, errors>>
    /\ UNCHANGED <<decodeVars, serverVars, balanceVars, toolVars>>

\* if preprocessed_image is None: raise ValueError("Preprocessing failed")
CheckPreprocessed ==
    /\ rpc = "check_pre"
    /\ IF cur.returned = <<>>
       THEN Raise("preprocess", "Preprocessing failed")
       ELSE rpc' = "save_pre" /\ UNCHANGED <<failed, exc>>
    /\ UNCHANGED <<entry, upload, files, calls, cur, inTry, response, errors>>
    /\ UNCHANGED <<decodeVars, serverVars, balanceVars, toolVars>>

\* ---- the request after the preprocessing ----

\* with tempfile.NamedTemporaryFile(suffix='.jpg', delete=False) as tmp_preprocessed:
\*     cv2.imwrite(preprocessed_path, ...)
SavePre ==
    /\ rpc = "save_pre"
    /\ \E written \in {"image", "unwritten", "raises"} :
           IF written = "raises"
           THEN /\ files' = [files EXCEPT !.pre = "unwritten"]
                /\ Raise("save_pre", "imwrite")
           ELSE /\ files' = [files EXCEPT !.pre = written]
                /\ rpc' = "segment"
                /\ UNCHANGED <<failed, exc>>
    /\ UNCHANGED <<entry, upload, calls, cur, inTry, response, errors>>
    /\ UNCHANGED <<decodeVars, serverVars, balanceVars, toolVars>>

\* mask = predict_segmentation(preprocessed_path, model)
\* if mask is None: raise ValueError("Segmentation failed")
Segment ==
    /\ rpc = "segment"
    /\ prediction' \in RequestTensors
    /\ castMode' \in CastModes
    /\ image' \in {i \in Images : i.readable <=> files.pre = "image"}
    /\ LET e == PredictError(model, image', prediction', castMode')
       IN  IF e # ""
           THEN /\ result' = "none"
                /\ err' = e
                /\ mask' = NoMask
                /\ resized' = NoMask
                /\ Raise(e, "Segmentation failed")
           ELSE /\ result' = "mask"
                /\ err' = ""
                /\ mask' = DecodeMask(prediction', castMode')
                /\ resized' = ResizeNearest(DecodeMask(prediction', castMode'),
                                            OriginalSize(image')[1],
                                            OriginalSize(image')[2])
                /\ rpc' = "summarize"
                /\ UNCHANGED <<failed, exc>>
    /\ pc' = "returned"
    /\ UNCHANGED <<model, back, stats>>
    /\ UNCHANGED <<entry, upload, files, calls, cur, inTry, response, errors>>
    /\ UNCHANGED <<serverVars, balanceVars, toolVars>>

\* the pixel counts, the PNG of the mask, os.unlink(preprocessed_path), and
\* return jsonify(result) (the finally clause runs before the return)
Summarize ==
    /\ rpc = "summarize"
    /\ stats' = MaskStats(resized)
    /\ files' = [files EXCEPT !.pre = "absent"]
    /\ response' = [status |-> 200, kind |-> "result", message |-> "",
                    mask |-> resized, stats |-> MaskStats(resized)]
    /\ rpc' = "finally"
    /\ UNCHANGED <<pc, prediction, castMode, mask, err, model, image, resized, back,
                   result>>
    /\ UNCHANGED <<entry, upload, calls, cur, failed, exc, inTry, errors>>
    /\ UNCHANGED <<serverVars, balanceVars, toolVars>>

\* finally: if os.path.exists(temp_path): os.unlink(temp_path)
Finally ==
    /\ rpc = "finally"
    /\ files' = [files EXCEPT !.raw = "absent"]
    /\ inTry' = FALSE
    /\ rpc' = IF exc # "" THEN "except" ELSE "done"
    /\ UNCHANGED <<entry, upload, calls, cur, failed, exc, response, errors>>
    /\ UNCHANGED <<decodeVars, serverVars, balanceVars, toolVars>>

\* except Exception as e: return jsonify({'error': f'Analysis failed: {str(e)}'}), 500
Except ==
    /\ rpc = "except"
    /\ response' = [status |-> 500, kind |-> "error", message |-> exc,
                    mask |-> NoMask, stats |-> NoStats]
    /\ exc' = ""
    /\ rpc' = "done"
    /\ UNCHANGED <<entry, upload, files, calls, cur, failed, inTry, errors>>
    /\ UNCHANGED <<decodeVars, serverVars, balanceVars, toolVars>>

\* the positions of a request that is being served
Serving ==
    {"decode", "validate", "get_model", "save_raw", "pre_read", "pre_wb", "pre_clahe",
     "pre_denoise", "pre_sharpen", "pre_return", "check_pre", "save_pre", "segment",
     "summarize", "finally", "except"}

\* the worker exceeds gunicorn's timeout: it is aborted (SystemExit unwinds the
\* request, running the finally clause but no handler) or killed outright
Timeout ==
    /\ rpc \in Serving
    /\ \E how \in {"abort", "kill"} :
           files' = IF how = "abort" /\ inTry THEN [files EXCEPT !.raw = "absent"]
                    ELSE files
    /\ response' = [NoResponse EXCEPT !.kind = "timeout"]
    /\ rpc' = "done"
    /\ inTry' = FALSE
    /\ exc' = ""
    /\ UNCHANGED <<entry, upload, calls, cur, failed, errors>>
    /\ UNCHANGED <<decodeVars, serverVars, balanceVars, toolVars>>

\* the kind of failure of a request, of the three the error has to tell apart:
\* the input image could not be read, the model's output had an unsupported
\* shape, an internal processing step failed
FailureKind(steps) ==
    IF steps \cap {"decode", "validate"} # {} THEN "unreadable"
    ELSE IF steps \cap {"ValueError", "cv2.error"} # {} THEN "unsupported_shape"
    ELSE "internal"

\* the process serves one more request after a request that ended in an error
NewRequest ==
    /\ rpc = "done"
    /\ response.kind = "error"
    /\ errors = {}
    /\ errors' = {[kind |-> FailureKind(failed), status |-> response.status,
                   message |-> response.message]}
    /\ rpc' = "start"
    /\ upload' \in Uploads
    /\ files' = NoFiles
    /\ calls' = <<>>
    /\ cur' = NoLocals
    /\ failed' = {}
    /\ exc' = ""
    /\ inTry' = FALSE
    /\ response' = NoResponse
    /\ pc' = "start"
    /\ prediction' = NoMask
    /\ mask' = NoMask
    /\ err' = ""
    /\ image' = NoImage
    /\ resized' = NoMask
    /\ result' = "pending"
    /\ stats' = NoStats
    /\ UNCHANGED <<entry, castMode, model, back, serverVars, balanceVars, toolVars>>

NextRequest ==
    \/ GetRequest \/ DecodeImage \/ ValidateLeaf \/ GetModel \/ SaveRaw
    \/ PreRead \/ PreWhiteBalance \/ PreClahe \/ PreDenoise \/ PreSharpen \/ PreReturn
    \/ CheckPreprocessed \/ SavePre \/ Segment \/ Summarize \/ Finally \/ Except
    \/ Timeout \/ NewRequest

SpecRequest == InitRequest /\ [][NextRequest]_vars

\* ---- properties of the request ----

\* the four stages in the order of the pipeline
StageOrder == <<"white_balance", "clahe", "denoise", "sharpen">>

\* C12: the stages called so far are always the first stages of the order white
\* balance, CLAHE, denoise, sharpen, the first on the decoded image and every
\* other one on the output of the stage before it; when preprocess_leaf has
\* returned an image, all four have been called, once each, and the image is the
\* output of the sharpening.
C12_StagesInOrder ==
    /\ Len(calls) <= Len(StageOrder)
    /\ \A i \in DOMAIN calls :
           /\ calls[i].stage = StageOrder[i]
           /\ calls[i].input = IF i = 1 THEN <<"imread", "cvtColor">> ELSE calls[i - 1].output
    /\ cur.returned # <<>> =>
           /\ Len(calls) = Len(StageOrder)
           /\ cur.returned = calls[Len(calls)].output

\* C12 witness: preprocess_leaf has returned the image made by gray-world white
\* balance, CLAHE, denoising and sharpening of the decoded image.
C12_Witness ==
    /\ rpc = "check_pre"
    /\ cur.returned = <<"imread", "cvtColor", "gray_world", "clahe", "denoise", "sharpen">>
    /\ Len(calls) = 4

\* the image of the request cannot be decoded or has zero area, or the file
\* preprocess_leaf reads cannot be decoded
Undecodable == upload \in {"unreadable", "empty"} \/ "imread" \in failed

\* C13: when the image cannot be decoded or has zero area no preprocessing stage
\* runs, preprocess_leaf returns no image, no preprocessed file is written and
\* predict_segmentation is not called; the request, unless it is timed out, ends
\* with an error response that has no mask.
C13_UndecodableAborts ==
    Undecodable =>
        /\ calls = <<>>
        /\ cur.returned = <<>>
        /\ files.pre = "absent"
        /\ result = "pending"
        /\ (rpc = "done" /\ response.kind # "timeout") =>
               /\ response.kind = "error"
               /\ response.status = 500
               /\ response.mask = NoMask

\* C13 witness: preprocess_leaf could not read its file and the request has ended
\* with the error "Preprocessing failed".
C13_Witness ==
    /\ rpc = "done"
    /\ "imread" \in failed
    /\ response.kind = "error"
    /\ response.message = "Preprocessing failed"

\* C14: when a request has ended, by whatever path, neither its raw-image nor its
\* preprocessed-image temporary file exists.
C14_TempFilesRemoved == (rpc = "done") => files = NoFiles

\* C16: a request in which a step has failed ends (unless timed out) with an
\* error response without mask and statistics: no failed step's output was
\* replaced by a fallback.
C16_FailFast ==
    (rpc = "done" /\ failed # {} /\ response.kind # "timeout") =>
        /\ response.kind = "error"
        /\ response.mask = NoMask
        /\ response.stats = NoStats

\* C17: two failed requests whose failures are of different kinds (image not
\* readable, internal processing step, unsupported shape of the model's output)
\* have different error results.
C17_ErrorsTellKinds ==
    (rpc = "done" /\ response.kind = "error") =>
        \A e \in errors :
            e.kind # FailureKind(failed) =>
                (e.status # response.status \/ e.message # response.message)

\* ---- the model shared by the requests of a process ----

\* requests served by one process
MaxRequests == 3

ModelFiles == {"missing", "corrupt", "valid"}

\* load_unet_model: the Keras model, or None when the file is missing or
\* keras.models.load_model raises
LoadUnetModel(file) == IF file = "valid" THEN "model" ELSE "None"

InitServer ==
    /\ pc = "returned"
    /\ prediction = [shape |-> <<>>, data |-> <<>>]
    /\ castMode = "saturate"
    /\ mask = NoMask
    /\ err = ""
    /\ model = "none"
    /\ image = NoImage
    /\ resized = NoMask
    /\ back = NoMask
    /\ result = "pending"
    /\ stats = NoStats
    /\ entry \in {"backend", "api"}
    /\ rpc = "idle"
    /\ upload = "none"
    /\ files = NoFiles
    /\ calls = <<>>
    /\ cur = NoLocals
    /\ failed = {}
    /\ exc = ""
    /\ inTry = FALSE
    /\ response = NoResponse
    /\ errors = {}
    /\ unet_model = "None"
    /\ tpc = [t \in Threads |-> "idle"]
    /\ loads = 0
    /\ rewritten = FALSE
    /\ modelFile \in ModelFiles
    /\ started = FALSE
    /\ served = 0
    /\ BalanceIdle /\ ToolIdle

\* a thread moves to another statement
Goto(t, label) == tpc' = [tpc EXCEPT ![t] = label]

\* the import of the endpoint's module: app.py loads the model, analyze.py
\* sets the reference to None
ImportModule ==
    /\ ~started
    /\ started' = TRUE
    /\ IF entry = "backend"
       THEN /\ unet_model' = LoadUnetModel(modelFile)
            /\ loads' = IF modelFile = "valid" THEN loads + 1 ELSE loads
       ELSE /\ unet_model' = "None"
            /\ UNCHANGED loads
    /\ UNCHANGED <<tpc, rewritten, modelFile, served>>
    /\ UNCHANGED <<decodeVars, requestVars, balanceVars, toolVars>>

\* a request thread comes to the statement that gets the model
EnterGetModel(t) ==
    /\ started
    /\ tpc[t] = "idle"
    /\ served < MaxRequests
    /\ Goto(t, IF entry = "api" THEN "check" ELSE "return")
    /\ UNCHANGED <<unet_model, loads, rewritten, modelFile, started, served>>
    /\ UNCHANGED <<decodeVars, requestVars, balanceVars, toolVars>>

\* if unet_model is None:
CheckNone(t) ==
    /\ tpc[t] = "check"
    /\ Goto(t, IF unet_model = "None" THEN "exists" ELSE "return")
    /\ UNCHANGED <<unet_model, loads, rewritten, modelFile, started, served>>
    /\ UNCHANGED <<decodeVars, requestVars, balanceVars, toolVars>>

\* if os.path.exists(model_path): ... else: print a warning
CheckExists(t) ==
    /\ tpc[t] = "exists"
    /\ Goto(t, IF modelFile # "missing" THEN "load" ELSE "return")
    /\ UNCHANGED <<unet_model, loads, rewritten, modelFile, started, served>>
    /\ UNCHANGED <<decodeVars, requestVars, balanceVars, toolVars>>

\* the call load_unet_model(model_path), its value not yet assigned
LoadModel(t) ==
    /\ tpc[t] = "load"
    /\ loads' = IF modelFile = "valid" THEN loads + 1 ELSE loads
    /\ Goto(t, IF modelFile = "valid" THEN "assign_model" ELSE "assign_None")
    /\ UNCHANGED <<unet_model, rewritten, modelFile, started, served>>
    /\ UNCHANGED <<decodeVars, requestVars, balanceVars, toolVars>>

\* unet_model = <the value load_unet_model returned>
AssignModel(t) ==
    /\ tpc[t] \in {"assign_model", "assign_None"}
    /\ unet_model' = IF tpc[t] = "assign_model" THEN "model" ELSE "None"
    /\ rewritten' = (rewritten \/ unet_model # "None")
    /\ Goto(t, "return")
    /\ UNCHANGED <<loads, modelFile, started, served>>
    /\ UNCHANGED <<decodeVars, requestVars, balanceVars, toolVars>>

\* return unet_model (analyze.py), or the read of the global (app.py)
ReturnModel(t) ==
    /\ tpc[t] = "return"
    /\ served' = served + 1
    /\ Goto(t, "idle")
    /\ UNCHANGED <<unet_model, loads, rewritten, modelFile, started>>
    /\ UNCHANGED <<decodeVars, requestVars, balanceVars, toolVars>>

NextServer ==
    \/ ImportModule
    \/ \E t \in Threads : EnterGetModel(t)
    \/ \E t \in Threads : CheckNone(t)
    \/ \E t \in Threads : CheckExists(t)
    \/ \E t \in Threads : LoadModel(t)
    \/ \E t \in Threads : AssignModel(t)
    \/ \E t \in Threads : ReturnModel(t)

SpecServer == InitServer /\ [][NextServer]_vars

\* C15: in one process the model is loaded at most once, and the shared
\* reference, once set by that load, is never written again.
C15_LoadedOnce == loads <= 1 /\ ~rewritten

\* ---- preprocessing.py: the colour balance ----

\* pixels of an image
MaxPixels == 2

\* the channel values images are made of
Palettes == {{0, 7, 43}, {0, 255}}

RGB == 1..3

\* the RGB images of n pixels over the values vals
Photos(n, vals) == [n : {n}, data : [1..n -> vals \X vals \X vals]]

RECURSIVE SumTo(_, _, _)
\* the sum of channel c over the first k pixels
SumTo(p, c, k) == IF k = 0 THEN 0 ELSE p.data[k][c] + SumTo(p, c, k - 1)

\* np.mean(img[:, :, i]) times the number of pixels
ChannelSum(p, c) == SumTo(p, c, p.n)

\* the sum of all values, every value counted twice
TotalSumTwice(p) == 2 * (ChannelSum(p, 1) + ChannelSum(p, 2) + ChannelSum(p, 3))

\* np.mean(img) times the three-fold number of pixels
TotalSum(p) == ChannelSum(p, 1) + ChannelSum(p, 2) + ChannelSum(p, 3)

\* the scaling without its guard
ScalesChannelAlways(sum) == TRUE

\* if mean_channel > 0:
ScalesChannel(sum) == sum > 0

\* np.clip(x, 0, 255).astype(np.uint8) that rounds to nearest
ClipRound(num, den) == Min((2 * num + den) \div (2 * den), 255)

\* np.clip(x, 0, 255).astype(np.uint8) of the value num / den >= 0: the cast
\* truncates
ClipTrunc(num, den) == Min(num \div den, 255)

RECURSIVE TwoTo(_)
TwoTo(k) == IF k = 0 THEN 1 ELSE 2 * TwoTo(k - 1)

RECURSIVE RatioExponent(_, _)
\* the e with 2^e <= a / b < 2^(e+1), for a, b > 0
RatioExponent(a, b) ==
    IF a >= 2 * b THEN RatioExponent(a, 2 * b) + 1
    ELSE IF a < b THEN RatioExponent(2 * a, b) - 1
    ELSE 0

RECURSIVE MantissaBits(_, _, _, _)
\* long division: k more bits of the quotient q, remainder rem, divisor b; the
\* last step rounds to nearest, ties to even
MantissaBits(q, rem, b, k) ==
    IF k = 0
    THEN IF 2 * rem > b \/ (2 * rem = b /\ q % 2 = 1) THEN q + 1 ELSE q
    ELSE IF 2 * rem >= b
         THEN MantissaBits(2 * q + 1, 2 * rem - b, b, k - 1)
         ELSE MantissaBits(2 * q, 2 * rem, b, k - 1)

\* the 24-bit mantissa M of np.float32(a / b): the float32 is M * 2^(e - 23)
\* with e = RatioExponent(a, b). The ratio reaches the multiplication as a
\* double rounded to float32; for the means of an image of this size the double
\* is much closer to a / b than a / b is to the middle of two float32 values,
\* so the float32 is that of a / b.
Float32Mantissa(a, b) ==
    LET e == RatioExponent(a, b)
    IN  IF e >= 0
        THEN MantissaBits(1, a - b * TwoTo(e), b * TwoTo(e), 23)
        ELSE MantissaBits(1, a * TwoTo(0 - e) - b, b, 23)

RECURSIVE BitLength(_)
BitLength(i) == IF i = 0 THEN 0 ELSE 1 + BitLength(i \div 2)

\* np.clip(x, 0, 255).astype(np.uint8) of a float32 product whose exact value
\* is int + frac / 2^t: the product is rounded to float32 and truncated, which
\* gives int unless the exact value lies within half a unit in the last place
\* below int + 1
Float32Cast(t, int, frac) ==
    IF int >= 255 THEN 255
    ELSE IF /\ frac > 0
            /\ t + BitLength(int) >= 25
            /\ TwoTo(t) - frac <= TwoTo(t + BitLength(int) - 25)
         THEN int + 1
         ELSE int

\* the exact product (hi * 2^12 + lo) / 2^t, split into integer and fraction
Float32Split(t, hi, lo) ==
    Float32Cast(t, hi \div TwoTo(t - 12), (hi % TwoTo(t - 12)) * 4096 + lo)

\* the exact product of the value v and the float32 M / 2^t, in two limbs of
\* 12 bits
Float32Product(v, t, M) ==
    Float32Split(t, (M \div 4096) * v + ((M % 4096) * v) \div 4096,
                 ((M % 4096) * v) % 4096)

\* np.clip(x, 0, 255).astype(np.uint8) of the float32 product x of the value v
\* and np.float32(a / b), as NumPy 1 computes it
Float32Scaled(v, a, b) ==
    Float32Product(v, 23 - RatioExponent(a, b), Float32Mantissa(a, b))

\* img_float[:, :, i] * (mean_global / mean_channel), clipped and cast, for one
\* value v of a channel of sum `sum` in an image of total `total`: the exact
\* ratio is total / (3 * sum). NumPy 2 multiplies in double and rounds the
\* product to float32, which for an image of this size truncates to the same
\* integer as the exact product; NumPy 1 rounds the ratio to float32 and
\* multiplies in float32, which can fall below an integer the exact product
\* reaches (value 7 in the pixel (7, 43, 43): exactly 31, 30 under NumPy 1).
ScaledValues(v, total, sum) ==
    IF ~ScalesChannel(sum) THEN {v}
    ELSE IF sum = 0 THEN {0}
    ELSE {ClipTrunc(v * total, 3 * sum), Float32Scaled(v, total, 3 * sum)}

\* the values pixel i can get
PixelResults(p, i) ==
    ScaledValues(p.data[i][1], TotalSum(p), ChannelSum(p, 1))
        \X ScaledValues(p.data[i][2], TotalSum(p), ChannelSum(p, 2))
        \X ScaledValues(p.data[i][3], TotalSum(p), ChannelSum(p, 3))

RECURSIVE PixelRows(_, _)
\* the values the first k pixels can get
PixelRows(p, k) ==
    IF k = 0 THEN {<<>>}
    ELSE {Append(d, x) : d \in PixelRows(p, k - 1), x \in PixelResults(p, k)}

\* gray_world_white_balance: the images it can return for p
GrayWorldResults(p) == {[n |-> p.n, data |-> d] : d \in PixelRows(p, p.n)}

\* gray_world_white_balance divides by a channel mean of zero
DividesByZero(p) ==
    \E c \in RGB : ScalesChannel(ChannelSum(p, c)) /\ ChannelSum(p, c) = 0

ChannelValues(p, c) == {p.data[i][c] : i \in 1..p.n}

ChannelMin(p, c) == CHOOSE v \in ChannelValues(p, c) : \A u \in ChannelValues(p, c) : v <= u

ChannelMax(p, c) == CHOOSE v \in ChannelValues(p, c) : \A u \in ChannelValues(p, c) : v >= u

\* saturate_cast<uchar> of num / den >= 0: cvRound rounds to nearest, ties to even
RoundHalfEven(num, den) ==
    LET q == num \div den
        r == num % den
    IN  IF 2 * r < den THEN q
        ELSE IF 2 * r > den THEN q + 1
        ELSE IF q % 2 = 0 THEN q ELSE q + 1

\* cv2.xphoto's SimpleWB with its defaults (input and output range [0, 255],
\* p = 2) on one value of a channel: the channel's histogram is stretched from
\* [lo - 0.5, hi + 0.5] to [0, 255]; of an image of fewer than 50 pixels no
\* value is cut off as an outlier, so lo and hi are the channel's extremes
StretchedValue(v, lo, hi) ==
    Min(RoundHalfEven(255 * (2 * (v - lo) + 1), 2 * (hi - lo + 1)), 255)

\* wb.balanceWhite(img)
SimpleWB(p) ==
    [n |-> p.n,
     data |-> [i \in 1..p.n |->
                 <<StretchedValue(p.data[i][1], ChannelMin(p, 1), ChannelMax(p, 1)),
                   StretchedValue(p.data[i][2], ChannelMin(p, 2), ChannelMax(p, 2)),
                   StretchedValue(p.data[i][3], ChannelMin(p, 3), ChannelMax(p, 3))>>]]

InitBalance ==
    /\ pc = "returned"
    /\ prediction = [shape |-> <<>>, data |-> <<>>]
    /\ castMode = "saturate"
    /\ mask = NoMask
    /\ err = ""
    /\ model = "none"
    /\ image = NoImage
    /\ resized = NoMask
    /\ back = NoMask
    /\ result = "pending"
    /\ stats = NoStats
    /\ RequestIdle
    /\ ServerIdle /\ ToolIdle
    /\ xphoto \in {"absent", "present", "raises"}
    /\ \E n \in 1..MaxPixels : \E vals \in Palettes : photo \in Photos(n, vals)
    /\ balanced = NoPhoto
    /\ wbUsed = "none"
    /\ divZero = FALSE

\* apply_white_balance(img)
ApplyWhiteBalance ==
    /\ wbUsed = "none"
    /\ photo # NoPhoto
    /\ wbUsed' = WhiteBalanceUsed(xphoto)
    /\ IF WhiteBalanceUsed(xphoto) = "simple_wb"
       THEN /\ balanced' = SimpleWB(photo)
            /\ UNCHANGED divZero
       ELSE /\ balanced' \in GrayWorldResults(photo)
            /\ divZero' = DividesByZero(photo)
    /\ UNCHANGED <<xphoto, photo>>
    /\ UNCHANGED <<decodeVars, requestVars, serverVars, toolVars>>

\* gray_world_white_balance(img), called by itself
GrayWorldWhiteBalance ==
    /\ wbUsed = "none"
    /\ photo # NoPhoto
    /\ wbUsed' = "gray_world_alone"
    /\ balanced' \in GrayWorldResults(photo)
    /\ divZero' = DividesByZero(photo)
    /\ UNCHANGED <<xphoto, photo>>
    /\ UNCHANGED <<decodeVars, requestVars, serverVars, toolVars>>

NextBalance ==
    \/ ApplyWhiteBalance
    \/ GrayWorldWhiteBalance

SpecBalance == InitBalance /\ [][NextBalance]_vars

\* the value `out` is the exact product v * total / (3 * sum), clipped to
\* [0, 255] and truncated
ExactlyScaled(v, total, sum, out) ==
    IF v * total >= 255 * 3 * sum
    THEN out = 255
    ELSE 3 * sum * out <= v * total /\ v * total < 3 * sum * (out + 1)

\* the image `out` is the gray-world result for `p`, computed exactly
ExactGrayWorld(p, out) ==
    /\ out.n = p.n
    /\ \A c \in RGB : \A i \in 1..p.n :
           ChannelSum(p, c) > 0 =>
               ExactlyScaled(p.data[i][c], TotalSum(p), ChannelSum(p, c), out.data[i][c])

\* the same, but a value whose exact product is an integer of 1..255 may be one
\* less; a channel of mean 0 is unchanged
RoundedGrayWorld(p, out) ==
    /\ out.n = p.n
    /\ \A c \in RGB : \A i \in 1..p.n :
           IF ChannelSum(p, c) > 0
           THEN \/ ExactlyScaled(p.data[i][c], TotalSum(p), ChannelSum(p, c),
                                 out.data[i][c])
                \/ /\ 3 * ChannelSum(p, c) * (out.data[i][c] + 1) = p.data[i][c] * TotalSum(p)
                   /\ out.data[i][c] + 1 <= 255
           ELSE out.data[i][c] = p.data[i][c]

\* the three channel means are equal
EqualMeans(p) ==
    ChannelSum(p, 1) = ChannelSum(p, 2) /\ ChannelSum(p, 2) = ChannelSum(p, 3)

\* C18 as stated: in every environment apply_white_balance returns the
\* gray-world result, every channel of mean > 0 scaled by globalMean /
\* channelMean, clipped to [0, 255] and truncated.
C18_AlwaysGrayWorld ==
    wbUsed \in {"simple_wb", "gray_world"} => ExactGrayWorld(photo, balanced)

\* C18, amended: apply_white_balance returns the result of cv2.xphoto's SimpleWB
\* where that is available and does not raise; everywhere else it returns the
\* gray-world result computed in single precision, in which a value whose exact
\* product is an integer may come out one less.
C18_GrayWorldWithoutXphoto ==
    wbUsed \in {"simple_wb", "gray_world"} =>
        IF xphoto = "present"
        THEN wbUsed = "simple_wb"
        ELSE wbUsed = "gray_world" /\ RoundedGrayWorld(photo, balanced)

\* apply_white_balance fell back to gray world after cv2.xphoto raised, scaled a
\* value down, truncated a value and clipped one to 255
C18_Witness ==
    /\ wbUsed = "gray_world"
    /\ xphoto = "raises"
    /\ \E c \in RGB : \E i \in 1..photo.n :
           /\ photo.data[i][c] * TotalSum(photo) > 255 * 3 * ChannelSum(photo, c)
           /\ ChannelSum(photo, c) > 0
           /\ balanced.data[i][c] = 255
    /\ \E c \in RGB : \E i \in 1..photo.n :
           /\ ChannelSum(photo, c) > 0
           /\ (photo.data[i][c] * TotalSum(photo)) % (3 * ChannelSum(photo, c)) # 0
           /\ balanced.data[i][c] < photo.data[i][c]

\* C19: gray_world_white_balance returns a channel of mean 0 unchanged and
\* divides by no zero, the all-black image included; the other channels are
\* scaled all the same.
C19_ZeroMeanChannelKept ==
    wbUsed \in {"gray_world", "gray_world_alone"} =>
        /\ ~divZero
        /\ balanced.n = photo.n
        /\ \A c \in RGB :
               ChannelSum(photo, c) = 0 =>
                   /\ \A i \in 1..photo.n : balanced.data[i][c] = photo.data[i][c]
                   /\ \A d \in RGB \ {c} : \A i \in 1..photo.n :
                          ChannelSum(photo, d) > 0 =>
                              \/ ExactlyScaled(photo.data[i][d], TotalSum(photo),
                                               ChannelSum(photo, d), balanced.data[i][d])
                              \/ 3 * ChannelSum(photo, d) * (balanced.data[i][d] + 1)
                                     = photo.data[i][d] * TotalSum(photo)

\* gray_world_white_balance was given an image with a channel of mean 0 and a
\* channel of another mean, and changed the latter
C19_Witness ==
    /\ wbUsed = "gray_world_alone"
    /\ \E c \in RGB : ChannelSum(photo, c) = 0
    /\ \E d \in RGB : \E i \in 1..photo.n :
           ChannelSum(photo, d) > 0 /\ balanced.data[i][d] # photo.data[i][d]

\* C20 as stated: the colour balancer returns an image of equal channel means
\* unchanged.
C20_EqualMeansFixed ==
    (wbUsed \in {"simple_wb", "gray_world"} /\ EqualMeans(photo)) => balanced = photo

\* C20, amended: gray_world_white_balance, and with it the colour balancer
\* wherever cv2.xphoto's SimpleWB is not available or raises, returns an image
\* of equal channel means unchanged.
C20_GrayWorldFixesEqualMeans ==
    (wbUsed \in {"gray_world", "gray_world_alone"} /\ EqualMeans(photo)) =>
        balanced = photo

\* the colour balancer fell back to gray world on an image of equal channel
\* means that is not gray and not black
C20_Witness ==
    /\ wbUsed = "gray_world"
    /\ EqualMeans(photo)
    /\ TotalSum(photo) > 0
    /\ \E i \in 1..photo.n : photo.data[i][1] # photo.data[i][2]
    /\ balanced = photo

\* ---- segmentation.py: extract_diseased_regions ----

\* the colours of the pixels of the images handed to extract_diseased_regions
Colours == {<<0, 0, 0>>, <<9, 8, 7>>}

\* the RGB images: an array of shape (H, W, 3), its pixels in row-major order
Pictures ==
    UNION {{[shape |-> <<g[1], g[2], 3>>, data |-> d] :
               d \in [1..(g[1] * g[2]) -> Colours]} : g \in Grids}

\* image.shape[:2]
Shape2(img) == SubSeq(img.shape, 1, 2)

\* the mask the pixels are selected with: the given one, or when its shape is
\* not image.shape[:2] its nearest-neighbour resize to the image's size
SizedMask(img, m) ==
    IF Shape2(img) # m.shape
    THEN ResizeNearest(m, img.shape[2], img.shape[1])
    ELSE m

KeepsPixelAbove(v) == v >= 128

\* mask != 255 selects the pixels to blacken: a pixel is kept when its mask
\* value is 255
KeepsPixel(v) == v = 255

\* result[mask != 255] = [0, 0, 0]
Blacken(img, m) ==
    [shape |-> img.shape,
     data  |-> [k \in DOMAIN img.data |->
                  IF KeepsPixel(m.data[k]) THEN img.data[k] ELSE <<0, 0, 0>>]]

\* result = image.copy(): the result is a new array, not the caller's
ResultIsImage == FALSE

InitExtract ==
    /\ \E img \in Pictures, m \in Masks :
          /\ exGiven = img
          /\ exImage = img
          /\ exMask = m
    /\ exResult = NoPicture
    /\ BatchIdle
    /\ LeafIdle
    /\ ClaheIdle
    /\ toolpc = "none"
    /\ pc = "returned"
    /\ prediction = NoMask
    /\ castMode = "wrap"
    /\ mask = NoMask
    /\ err = ""
    /\ model = "loaded"
    /\ image = NoImage
    /\ resized = NoMask
    /\ back = NoMask
    /\ result = "pending"
    /\ stats = NoStats
    /\ RequestIdle /\ ServerIdle /\ BalanceIdle

ExtractDiseasedRegions ==
    /\ toolpc = "none"
    /\ exResult' = Blacken(exImage, SizedMask(exImage, exMask))
    /\ exImage' = IF ResultIsImage THEN exResult' ELSE exImage
    /\ toolpc' = "extract_diseased_regions"
    /\ UNCHANGED <<exGiven, exMask, batchVars, leafVars, claheVars>>
    /\ UNCHANGED <<decodeVars, requestVars, serverVars, balanceVars>>

NextExtract == ExtractDiseasedRegions

SpecExtract == InitExtract /\ [][NextExtract]_vars

\* C23: for an image and a mask of the same height and width the returned image
\* equals the input at every pixel whose mask value is 255 and is (0, 0, 0) at
\* every other pixel, and the input image array is left as it was.
C23_DiseasedRegionsOnly ==
    (toolpc = "extract_diseased_regions" /\ Shape2(exGiven) = exMask.shape) =>
        /\ exResult.shape = exGiven.shape
        /\ DOMAIN exResult.data = DOMAIN exGiven.data
        /\ \A k \in DOMAIN exGiven.data :
              exResult.data[k] =
                  IF exMask.data[k] = 255 THEN exGiven.data[k] ELSE <<0, 0, 0>>
        /\ exImage = exGiven

\* a call with a mask of the image's size that keeps a coloured pixel and
\* blackens another one
C23_Witness ==
    /\ toolpc = "extract_diseased_regions"
    /\ Shape2(exGiven) = exMask.shape
    /\ \E j, k \in DOMAIN exGiven.data :
          /\ exMask.data[j] = 255 /\ exGiven.data[j] # <<0, 0, 0>>
          /\ exResult.data[j] = exGiven.data[j]
          /\ exMask.data[k] = 128 /\ exGiven.data[k] # <<0, 0, 0>>
          /\ exResult.data[k] = <<0, 0, 0>>

\* ---- preprocessing.py: preprocess_batch ----

MaxPaths == 3        \* longest list of paths

\* the paths: two images cv2.imread decodes (of the same stem), a file that is
\* no image, and a path where no file is
Paths == {"a/leaf.jpg", "b/leaf.jpg", "notes.txt", "missing.png"}

\* cv2.imread returns an array for the path, not None
Decodable(path) == path \in {"a/leaf.jpg", "b/leaf.jpg"}

\* Path(image_path).stem
Stem(path) ==
    CASE path \in {"a/leaf.jpg", "b/leaf.jpg"} -> "leaf"
      [] path = "notes.txt" -> "notes"
      [] path = "missing.png" -> "missing"

\* what a call of preprocess_leaf comes to: None for a path cv2.imread does not
\* decode; the preprocessed image of the path; or the exception of
\* output_path.mkdir when the output directory cannot be made
PreprocessLeaf(path, dir) ==
    IF ~Decodable(path) THEN [kind |-> "None", of |-> path]
    ELSE IF dir = "blocked" THEN [kind |-> "raises", of |-> path]
    ELSE [kind |-> "image", of |-> path]

AppendsAlways(preprocessed) == preprocessed.kind # "raises"

\* if preprocessed is not None
Appends(preprocessed) == preprocessed.kind \notin {"None", "raises"}

InitBatch ==
    /\ \E n \in 0..MaxPaths : image_paths \in [1..n -> Paths]
    /\ output_dir \in {"none", "writable", "blocked"}
    /\ position = 0
    /\ results = <<>>
    /\ saved = {}
    /\ LeafIdle
    /\ ClaheIdle
    /\ toolpc = "preprocess_batch"
    /\ exGiven = NoPicture
    /\ exImage = NoPicture
    /\ exMask = NoMask
    /\ exResult = NoPicture
    /\ pc = "returned"
    /\ prediction = NoMask
    /\ castMode = "wrap"
    /\ mask = NoMask
    /\ err = ""
    /\ model = "loaded"
    /\ image = NoImage
    /\ resized = NoMask
    /\ back = NoMask
    /\ result = "pending"
    /\ stats = NoStats
    /\ RequestIdle /\ ServerIdle /\ BalanceIdle

\* one turn of the loop: preprocess_leaf of the next path, and the append of
\* its image or the warning
PreprocessNextPath ==
    /\ toolpc = "preprocess_batch"
    /\ position < Len(image_paths)
    /\ LET img_path == image_paths[position + 1]
           preprocessed == PreprocessLeaf(img_path, output_dir)
       IN  /\ position' = position + 1
           /\ toolpc' = IF preprocessed.kind = "raises" THEN "batch_raised"
                        ELSE toolpc
           /\ results' = IF Appends(preprocessed)
                         THEN Append(results, preprocessed)
                         ELSE results
           /\ saved' = IF preprocessed.kind = "image" /\ output_dir = "writable"
                       THEN saved \cup {Stem(img_path)}
                       ELSE saved
    /\ UNCHANGED <<image_paths, output_dir, extractVars, leafVars, claheVars>>
    /\ UNCHANGED <<decodeVars, requestVars, serverVars, balanceVars>>

\* return results
ReturnResults ==
    /\ toolpc = "preprocess_batch"
    /\ position = Len(image_paths)
    /\ toolpc' = "batch_returned"
    /\ UNCHANGED <<extractVars, batchVars, leafVars, claheVars>>
    /\ UNCHANGED <<decodeVars, requestVars, serverVars, balanceVars>>

NextBatch == PreprocessNextPath \/ ReturnResults

SpecBatch == InitBatch /\ [][NextBatch]_vars

\* the input positions whose preprocessing succeeded, in input order
Succeeded == SelectSeq([i \in 1..Len(image_paths) |-> i],
                       LAMBDA i : Decodable(image_paths[i]))

\* the number of failing paths among the first n
FailuresBefore(n) == Cardinality({i \in 1..n : ~Decodable(image_paths[i])})

\* C26: the returned list holds the preprocessed images of exactly the paths
\* whose preprocessing succeeded, in input order; it is shorter than the input
\* by the number of failures, and result position i is that of input position
\* i only when no path up to there failed.
C26_BatchKeepsSuccesses ==
    toolpc = "batch_returned" =>
        /\ Len(results) = Len(Succeeded)
        /\ Len(results) = Len(image_paths) - FailuresBefore(Len(image_paths))
        /\ \A i \in 1..Len(results) :
              /\ results[i] = [kind |-> "image", of |-> image_paths[Succeeded[i]]]
              /\ (Succeeded[i] = i) <=> (FailuresBefore(i) = 0)

\* a returned list that skipped a failing path standing between two successes
C26_Witness ==
    /\ toolpc = "batch_returned"
    /\ Len(image_paths) = 3
    /\ Decodable(image_paths[1])
    /\ ~Decodable(image_paths[2])
    /\ Decodable(image_paths[3])
    /\ image_paths[1] # image_paths[3]
    /\ Len(results) = 2
    /\ results[2].of = image_paths[3]

\* ---- preprocessing.py: the sizes of the images of preprocess_leaf ----

TileGrid == 8              \* tileGridSize=(8, 8)
TemplateWindowSize == 7    \* templateWindowSize=7
SearchWindowSize == 21     \* searchWindowSize=21
BlurKernel == 7            \* the kernel GaussianBlur derives from sigma 1

\* the heights and widths of the files: below, at, above and twice the tile grid
LeafSides == {1, 2, 7, 8, 9, 16}

\* the files: decodable or not, gray, colour or colour with alpha, and stored
\* upright or with an EXIF orientation that turns them by a quarter
LeafFiles ==
    [decodable : BOOLEAN, h : LeafSides, w : LeafSides, channels : {1, 3, 4},
     turned : BOOLEAN]

\* no array: what cv2.imread returns for a file it cannot decode, and the
\* shape of no image after an exception
NoArray == <<>>

\* cv2.imread(path): None for an undecodable file; else the 3-channel BGR
\* image of the file, turned as its EXIF orientation says
Imread(f) ==
    IF ~f.decodable THEN NoArray
    ELSE IF f.turned THEN <<f.w, f.h, 3>>
    ELSE <<f.h, f.w, 3>>

\* cv2.cvtColor between two 3-channel colour spaces: needs 3 or 4 channels
CvtColor3(s) ==
    IF s = NoArray \/ s[3] \notin {3, 4} THEN NoArray ELSE <<s[1], s[2], 3>>

\* apply_white_balance: both balancers write an image of the input's shape
WhiteBalanceShape(s) == s

\* cv2.split: the planes of an image
SplitPlane(s) == IF s = NoArray THEN NoArray ELSE <<s[1], s[2]>>

\* the plane CLAHE computes its tile histograms on: the source when both sides
\* are multiples of the tile grid, else the source with a border added below
\* and to the right
ClaheExtended(s) ==
    IF s[1] % TileGrid = 0 /\ s[2] % TileGrid = 0 THEN s
    ELSE <<s[1] + (TileGrid - (s[1] % TileGrid)),
           s[2] + (TileGrid - (s[2] % TileGrid))>>

ClaheApplyExtended(s) == IF s = NoArray THEN NoArray ELSE ClaheExtended(s)

\* clahe.apply(l): the destination is created with the size of the source
ClaheApply(s) == IF s = NoArray THEN NoArray ELSE <<s[1], s[2]>>

\* cv2.merge of three planes: they must be of one size
Merge3(l, a, b) ==
    IF l = NoArray \/ l # a \/ a # b THEN NoArray ELSE <<l[1], l[2], 3>>

\* apply_clahe
ApplyClaheShape(s) ==
    LET l == SplitPlane(CvtColor3(s))
    IN  CvtColor3(Merge3(ClaheApply(l), l, l))

\* the border fastNlMeansDenoisingColored lays around its source
DenoiseBorder == (SearchWindowSize \div 2) + (TemplateWindowSize \div 2)

\* cv2.fastNlMeansDenoisingColored: a 3- or 4-channel source; every pixel of
\* the source, inside the bordered copy, gets its weighted average
Denoise(s) ==
    IF s = NoArray \/ s[3] \notin {3, 4} THEN NoArray
    ELSE <<(s[1] + 2 * DenoiseBorder) - 2 * DenoiseBorder,
           (s[2] + 2 * DenoiseBorder) - 2 * DenoiseBorder, s[3]>>

\* cv2.GaussianBlur: the kernel runs over the source with a border of half
\* the kernel on every side
GaussianBlur(s) ==
    IF s = NoArray THEN NoArray
    ELSE <<(s[1] + 2 * (BlurKernel \div 2)) - (BlurKernel - 1),
           (s[2] + 2 * (BlurKernel \div 2)) - (BlurKernel - 1), s[3]>>

\* cv2.addWeighted: both sources of one size and channel count
AddWeighted(a, b) == IF a = NoArray \/ a # b THEN NoArray ELSE a

\* apply_sharpening
ApplySharpening(s) == AddWeighted(s, GaussianBlur(s))

\* the shapes of img, img_wb, img_clahe, img_denoised and img_sharp
LeafShapes(img) ==
    LET rgb      == CvtColor3(img)
        wb       == WhiteBalanceShape(rgb)
        clahe    == ApplyClaheShape(wb)
        denoised == Denoise(clahe)
        sharp    == ApplySharpening(denoised)
    IN  <<rgb, wb, clahe, denoised, sharp>>

InitLeaf ==
    /\ leaf_file \in LeafFiles
    /\ leaf_dir \in {"none", "writable", "blocked"}
    /\ leaf_shapes = <<>>
    /\ toolpc = "preprocess_leaf"
    /\ exGiven = NoPicture
    /\ exImage = NoPicture
    /\ exMask = NoMask
    /\ exResult = NoPicture
    /\ BatchIdle
    /\ ClaheIdle
    /\ pc = "returned"
    /\ prediction = NoMask
    /\ castMode = "wrap"
    /\ mask = NoMask
    /\ err = ""
    /\ model = "loaded"
    /\ image = NoImage
    /\ resized = NoMask
    /\ back = NoMask
    /\ result = "pending"
    /\ stats = NoStats
    /\ RequestIdle /\ ServerIdle /\ BalanceIdle

\* preprocess_leaf(image_path, output_dir)
PreprocessLeafCall ==
    /\ toolpc = "preprocess_leaf"
    /\ LET img == Imread(leaf_file)
           shapes == LeafShapes(img)
       IN  IF img = NoArray
           THEN /\ toolpc' = "leaf_none"
                /\ leaf_shapes' = <<>>
           ELSE /\ leaf_shapes' = shapes
                /\ toolpc' = IF \E i \in 1..Len(shapes) : shapes[i] = NoArray
                                THEN "leaf_raised"
                             ELSE IF leaf_dir = "blocked" THEN "leaf_raised"
                             ELSE "leaf_returned"
    /\ UNCHANGED <<leaf_file, leaf_dir, extractVars, batchVars, claheVars>>
    /\ UNCHANGED <<decodeVars, requestVars, serverVars, balanceVars>>

NextLeaf == PreprocessLeafCall

SpecLeaf == InitLeaf /\ [][NextLeaf]_vars

\* the height and width of the image the file decodes to
DecodedSize == SubSeq(Imread(leaf_file), 1, 2)

\* C22: for every decodable image of height H and width W, preprocess_leaf
\* returns a three-channel image of height H and width W, and each of the four
\* stages keeps the dimensions of its input.
C22_SameDimensions ==
    (toolpc # "preprocess_leaf" /\ leaf_file.decodable) =>
        /\ leaf_dir # "blocked" => toolpc = "leaf_returned"
        /\ Len(leaf_shapes) = 5
        /\ leaf_shapes[5] = <<DecodedSize[1], DecodedSize[2], 3>>
        /\ \A i \in 2..5 : SubSeq(leaf_shapes[i], 1, 2) = SubSeq(leaf_shapes[i - 1], 1, 2)

\* a returned image of a file whose sides are no multiples of the tile grid
C22_Witness ==
    /\ toolpc = "leaf_returned"
    /\ leaf_file.h = 9 /\ leaf_file.w = 7 /\ leaf_file.turned
    /\ leaf_shapes[5] = <<7, 9, 3>>

\* ---- preprocessing.py: apply_clahe ----

HistSize == 256      \* the bins of the histogram of an 8-bit plane
ClipLimit == 2       \* clipLimit=2.0

\* the colours of the images handed to apply_clahe: a gray, a leaf green and
\* the brown of a lesion
LeafColours == {<<128, 128, 128>>, <<40, 120, 30>>, <<150, 75, 0>>}

\* the images: sides up to the tile grid, so that every tile is one pixel
LeafPictures ==
    UNION {{[shape |-> <<g[1], g[2], 3>>, data |-> d] :
               d \in [1..(g[1] * g[2]) -> LeafColours]} : g \in Grids}

\* cv2.cvtColor(img, cv2.COLOR_RGB2LAB) on 8-bit pixels: CIE L*a*b* of the
\* sRGB colour under D65, stored as L * 255 / 100, a + 128, b + 128, rounded;
\* tabled for the colours the model meets
RGB2LAB ==
    {<<<<128, 128, 128>>, <<137, 128, 128>>>>,
     <<<<60, 60, 60>>, <<65, 128, 128>>>>,
     <<<<119, 119, 119>>, <<128, 128, 128>>>>,
     <<<<184, 184, 184>>, <<191, 128, 128>>>>,
     <<<<255, 255, 255>>, <<255, 128, 128>>>>,
     <<<<40, 120, 30>>, <<113, 86, 168>>>>,
     <<<<0, 72, 0>>, <<65, 93, 161>>>>,
     <<<<58, 136, 46>>, <<128, 86, 168>>>>,
     <<<<126, 203, 108>>, <<191, 86, 168>>>>,
     <<<<196, 255, 175>>, <<241, 95, 160>>>>,
     <<<<150, 75, 0>>, <<103, 155, 178>>>>,
     <<<<106, 39, 0>>, <<65, 156, 164>>>>,
     <<<<178, 99, 30>>, <<128, 155, 178>>>>,
     <<<<254, 163, 92>>, <<191, 155, 178>>>>,
     <<<<255, 233, 158>>, <<236, 125, 167>>>>}

\* cv2.cvtColor(lab, cv2.COLOR_LAB2RGB) on 8-bit pixels: the inverse
\* formulas, colours outside the RGB cube clipped to it, rounded; tabled for
\* the LAB values the model meets
LAB2RGB ==
    {<<<<64, 128, 128>>, <<60, 60, 60>>>>,
     <<<<128, 128, 128>>, <<119, 119, 119>>>>,
     <<<<191, 128, 128>>, <<184, 184, 184>>>>,
     <<<<255, 128, 128>>, <<255, 255, 255>>>>,
     <<<<64, 86, 168>>, <<0, 72, 0>>>>,
     <<<<128, 86, 168>>, <<58, 136, 46>>>>,
     <<<<191, 86, 168>>, <<126, 203, 108>>>>,
     <<<<255, 86, 168>>, <<196, 255, 175>>>>,
     <<<<64, 155, 178>>, <<106, 39, 0>>>>,
     <<<<128, 155, 178>>, <<178, 99, 30>>>>,
     <<<<191, 155, 178>>, <<254, 163, 92>>>>,
     <<<<255, 155, 178>>, <<255, 233, 158>>>>}

RgbToLab(c) == (CHOOSE e \in RGB2LAB : e[1] = c)[2]

LabToRgb(c) == (CHOOSE e \in LAB2RGB : e[1] = c)[2]

\* cv2.cvtColor(img, cv2.COLOR_RGB2LAB)
CvtRgb2Lab(img) ==
    [shape |-> img.shape, data |-> [k \in DOMAIN img.data |-> RgbToLab(img.data[k])]]

\* cv2.cvtColor(lab_clahe, cv2.COLOR_LAB2RGB)
CvtLab2Rgb(img) ==
    [shape |-> img.shape, data |-> [k \in DOMAIN img.data |-> LabToRgb(img.data[k])]]

\* cv2.split: plane c of an image, as a matrix
Plane(img, c) ==
    [shape |-> Shape2(img), data |-> [k \in DOMAIN img.data |-> img.data[k][c]]]

\* the count a bin of a tile's histogram is clipped to
TileClipLimit(area) ==
    LET c == (ClipLimit * area) \div HistSize
    IN  IF c > 1 THEN c ELSE 1

\* the histogram of a tile, given by its pixel values
TileHist(tile, i) == Cardinality({k \in DOMAIN tile : tile[k] = i})

\* the counts above the clip limit, summed over the bins lo..hi
RECURSIVE TileExcess(_, _, _, _)
TileExcess(tile, clip, lo, hi) ==
    IF lo > hi THEN 0
    ELSE IF lo = hi
        THEN (IF TileHist(tile, lo) > clip THEN TileHist(tile, lo) - clip ELSE 0)
    ELSE LET mid == (lo + hi) \div 2
         IN  TileExcess(tile, clip, lo, mid) + TileExcess(tile, clip, mid + 1, hi)

\* bin i after clipping and after the clipped counts are dealt out again: an
\* equal batch to every bin, the rest one by one at equal steps
ClippedBin(tile, clip, clipped, i) ==
    LET residual == clipped % HistSize
        step == IF residual = 0 \/ HistSize \div residual < 1 THEN 1
                ELSE HistSize \div residual
    IN  Min(TileHist(tile, i), clip) + (clipped \div HistSize)
            + (IF residual > 0 /\ i % step = 0 /\ i \div step < residual THEN 1 ELSE 0)

\* the clipped histogram summed over the bins lo..hi
RECURSIVE TileCdf(_, _, _, _, _)
TileCdf(tile, clip, clipped, lo, hi) ==
    IF lo > hi THEN 0
    ELSE IF lo = hi THEN ClippedBin(tile, clip, clipped, lo)
    ELSE LET mid == (lo + hi) \div 2
         IN  TileCdf(tile, clip, clipped, lo, mid)
                 + TileCdf(tile, clip, clipped, mid + 1, hi)

\* the look-up table of a tile at value v: the cumulated histogram scaled by
\* 255 / area, rounded and saturated
TileLut(tile, v) ==
    LET area == Len(tile)
        clip == TileClipLimit(area)
    IN  Min(RoundHalfEven(TileCdf(tile, clip, TileExcess(tile, clip, 0, HistSize - 1), 0, v)
                              * (HistSize - 1),
                          area), 255)

\* the tile at row ty, column tx of the tile grid of a plane whose sides are
\* at most the tile grid: one pixel
TileAt(l, ty, tx) == <<l.data[ty * l.shape[2] + tx + 1]>>

\* clahe.apply(l) for one-pixel tiles: the pixel at row y, column x is the
\* blend, at weights 1/2 by 1/2, of the look-up tables of the tiles x - 1, x
\* and y - 1, y (the tile itself where there is none before it)
ClaheApplyAt(l, y, x) ==
    LET v  == l.data[y * l.shape[2] + x + 1]
        x1 == IF x = 0 THEN 0 ELSE x - 1
        y1 == IF y = 0 THEN 0 ELSE y - 1
    IN  RoundHalfEven(TileLut(TileAt(l, y1, x1), v) + TileLut(TileAt(l, y1, x), v)
                          + TileLut(TileAt(l, y, x1), v) + TileLut(TileAt(l, y, x), v),
                      4)

\* clahe.apply(l)
ClaheApplyPlane(l) ==
    [shape |-> l.shape,
     data  |-> [k \in DOMAIN l.data |->
                  ClaheApplyAt(l, (k - 1) \div l.shape[2], (k - 1) % l.shape[2])]]

MergeFirstPixel(l, a, b) ==
    [shape |-> <<l.shape[1], l.shape[2], 3>>,
     data  |-> [k \in DOMAIN l.data |-> <<l.data[k], a.data[1], b.data[1]>>]]

\* cv2.merge((l_clahe, a, b))
Merge(l, a, b) ==
    [shape |-> <<l.shape[1], l.shape[2], 3>>,
     data  |-> [k \in DOMAIN l.data |-> <<l.data[k], a.data[k], b.data[k]>>]]

InitClahe ==
    /\ clahe_img \in LeafPictures
    /\ lab = NoPicture
    /\ lab_clahe = NoPicture
    /\ img_clahe = NoPicture
    /\ toolpc = "apply_clahe"
    /\ exGiven = NoPicture
    /\ exImage = NoPicture
    /\ exMask = NoMask
    /\ exResult = NoPicture
    /\ BatchIdle
    /\ LeafIdle
    /\ pc = "returned"
    /\ prediction = NoMask
    /\ castMode = "wrap"
    /\ mask = NoMask
    /\ err = ""
    /\ model = "loaded"
    /\ image = NoImage
    /\ resized = NoMask
    /\ back = NoMask
    /\ result = "pending"
    /\ stats = NoStats
    /\ RequestIdle /\ ServerIdle /\ BalanceIdle

\* apply_clahe(img)
ApplyClahe ==
    /\ toolpc = "apply_clahe"
    /\ lab' = CvtRgb2Lab(clahe_img)
    /\ lab_clahe' = Merge(ClaheApplyPlane(Plane(lab', 1)), Plane(lab', 2), Plane(lab', 3))
    /\ img_clahe' = CvtLab2Rgb(lab_clahe')
    /\ toolpc' = "clahe_returned"
    /\ UNCHANGED <<clahe_img, extractVars, batchVars, leafVars>>
    /\ UNCHANGED <<decodeVars, requestVars, serverVars, balanceVars>>

NextClahe == ApplyClahe

SpecClahe == InitClahe /\ [][NextClahe]_vars

\* the two chrominance values of a LAB pixel
Chrominance(p) == <<p[2], p[3]>>

\* C21, as stated: for every pixel the chrominance of the stage's output, taken
\* in the luminance-chrominance space, equals that of the stage's input.
C21_OutputChrominanceKept ==
    toolpc = "clahe_returned" =>
        \A k \in DOMAIN clahe_img.data :
            Chrominance(RgbToLab(img_clahe.data[k])) = Chrominance(RgbToLab(clahe_img.data[k]))

\* C21, amended: for every pixel the chrominance of the LAB image the stage
\* converts back to RGB equals that of the LAB conversion of the stage's input;
\* only the luminance plane is changed.
C21_MergedChrominanceKept ==
    toolpc = "clahe_returned" =>
        /\ lab_clahe.shape = lab.shape
        /\ \A k \in DOMAIN clahe_img.data :
              /\ lab.data[k] = RgbToLab(clahe_img.data[k])
              /\ Chrominance(lab_clahe.data[k]) = Chrominance(lab.data[k])

\* a returned image with a coloured pixel whose luminance the stage changed
\* and whose chrominance it merged back as it was
C21_Witness ==
    /\ toolpc = "clahe_returned"
    /\ \E k \in DOMAIN clahe_img.data :
          /\ Chrominance(lab.data[k]) # <<128, 128>>
          /\ lab_clahe.data[k][1] # lab.data[k][1]
          /\ Chrominance(lab_clahe.data[k]) = Chrominance(lab.data[k])

====
